---------------------------- MODULE Spec2Model ----------------------------
(***************************************************************************)
(* The room manager of the rummy server (src/socket/roomManager.ts), the   *)
(* deck (src/unnamed/part_005) and the socket event handlers that call     *)
(* them (src/unnamed/part_000), as a state machine over the Redis store.   *)
(*                                                                         *)
(* A card is its id: the position 1..106 at which Deck.initialize created  *)
(* it (uuid ids are taken to be unique); suit and joker flag are read off  *)
(* that position.  A room record is the RoomData that saveRoom writes:     *)
(* players, gameState (currentTurnPlayerId, deckCount, discardPile,        *)
(* status, maxPlayers, winner and its own copy of players) and deckState.  *)
(***************************************************************************)
EXTENDS Integers, Sequences, FiniteSets, TLC

VARIABLES
    rooms,       \* Redis room:<id>      : room id -> RoomData (domain = existing keys)
    socketRoom,  \* Redis socket:<id>    : socket id -> room id
    queues,      \* Redis queue:<size>   : game size -> list of queued {id, name}
    queueRef,    \* Redis queue_ref:<id> : socket id -> {gameSize, playerInfo}
    timers,      \* room ids with a pending setTimeout(redis.del) (debugWin)
    closed,      \* sockets that have disconnected (a socket id is never reused)
    nextRoom,    \* number of rooms created so far
    inflight,    \* two handlers of one room, each suspended between getRoom and
                 \* saveRoom (the specification of interleaved room handlers)
    jq,          \* joinQueue handlers, each suspended at an await (the
                 \* specification of interleaved matchmaking)
    last,        \* the handler that ran last and the events it emitted
    ops,         \* number of handler runs that changed the store
    budget,      \* the numbers of such runs and of created rooms explored
    oneDeck,     \* a Deck object on its own, and what its last call returned
    judged       \* cards handed to RummyValidator, and its answer

vars == <<rooms, socketRoom, queues, queueRef, timers, closed, nextRoom,
          inflight, jq, last, ops, budget, oneDeck, judged>>

---------------------------------------------------------------------------
(* Bounds of the model.                                                    *)

\* Store-changing handler runs explored from the initial state.
MaxOps == 4

\* Sockets that connect after the initial state.
MaxSockets == 3

SocketSeq == <<"s1", "s2", "s3", "s4", "s5", "s6", "s7", "s8", "s9">>

Sockets == {SocketSeq[i] : i \in 1..Len(SocketSeq)}

\* Room ids createRoom hands out, in order; Missing is an id of no room.
RoomSeq == <<"R1", "R2">>

Missing == "R0"

\* maxPlayers values a client sends with create-room (6 is the default).
MaxPlayersChoices == {2, 6}

\* Outcomes of Math.random() explored by shuffle: always 0, always 0.5.
RandomSources == {"lo", "mid"}

---------------------------------------------------------------------------
(* Program constants.                                                      *)

NumDecks == 2

NumJokers == 2

HandSize == 13

DrawLimit == 14

MinPlayers == 2

SUITS == <<"spades", "hearts", "diamonds", "clubs">>

RANKS == <<"A", "2", "3", "4", "5", "6", "7", "8", "9", "10", "J", "Q", "K">>

\* String order used by localeCompare on the four suit names.
SuitOrder == <<"clubs", "diamonds", "hearts", "spades">>

---------------------------------------------------------------------------
(* Deck (src/unnamed/part_005).                                            *)

Min(a, b) == IF a < b THEN a ELSE b

\* Deck.initialize: for each deck, each suit and each rank one card is
\* pushed, then one per joker.  A card is named by its place in that order:
\* its id is the uuid drawn at that push, and no two draws give the same.
initialize(numDecks, numJokers) ==
    [i \in 1..(numDecks * Len(SUITS) * Len(RANKS) + numJokers) |-> i]

IsJoker(c) == c > 52 * NumDecks

\* Jokers carry the placeholder suit hearts.
SuitOf(c) == IF IsJoker(c) THEN "hearts" ELSE SUITS[(((c - 1) % 52) \div 13) + 1]

\* Math.floor(Math.random() * (i + 1)) for the outcomes explored.
RandomIndex(rnd, i) ==
    CASE rnd = "lo"  -> 0
      [] rnd = "mid" -> (i + 1) \div 2
      [] rnd = "hi"  -> i

\* swapAt that copies cards[j] over cards[i] and leaves cards[j] as it is.
swapAtOverwrite(cards, i, rnd) ==
    LET j == RandomIndex(rnd, i)
    IN [cards EXCEPT ![i + 1] = cards[j + 1]]

\* One pass of the loop body of Deck.shuffle at 0-based index i: swap
\* cards[i] and cards[j].
swapAt(cards, i, rnd) ==
    LET j == RandomIndex(rnd, i)
    IN [cards EXCEPT ![i + 1] = cards[j + 1], ![j + 1] = cards[i + 1]]

\* The passes of the loop for i = hi down to lo, in that order (the range is
\* halved, and the upper half computed first, so that the evaluation does
\* not nest once per card).
RECURSIVE shuffleRange(_, _, _, _)
shuffleRange(cards, hi, lo, rnd) ==
    IF hi < lo THEN cards
    ELSE IF hi = lo THEN swapAt(cards, hi, rnd)
    ELSE LET mid == (hi + lo) \div 2
             upper == shuffleRange(cards, hi, mid + 1, rnd)
         IN IF Len(upper) = Len(cards) THEN shuffleRange(upper, mid, lo, rnd)
            ELSE cards

\* Deck.shuffle: for i = length-1 down to 1, swap cards[i] and cards[j].
shuffle(cards, rnd) == shuffleRange(cards, Len(cards) - 1, 1, rnd)

\* deal with splice(0, numCards - 1): one card short.
dealOneShort(cards, numCards) ==
    LET n == Min(numCards - 1, Len(cards))
    IN [dealt |-> SubSeq(cards, 1, n), rest |-> SubSeq(cards, n + 1, Len(cards))]

\* Deck.deal: cards.splice(0, numCards) - the cards taken and the deck left.
deal(cards, numCards) ==
    LET n == Min(numCards, Len(cards))
    IN [dealt |-> SubSeq(cards, 1, n), rest |-> SubSeq(cards, n + 1, Len(cards))]

\* draw with cards.pop(): the card at the back.
drawBack(cards) ==
    IF cards = <<>> THEN [card |-> <<>>, rest |-> <<>>]
    ELSE [card |-> <<cards[Len(cards)]>>, rest |-> SubSeq(cards, 1, Len(cards) - 1)]

\* Deck.draw: cards.shift() - the front card (<<>> for undefined) and the rest.
draw(cards) ==
    IF cards = <<>> THEN [card |-> <<>>, rest |-> <<>>]
    ELSE [card |-> <<Head(cards)>>, rest |-> Tail(cards)]

\* The rank of a card (jokers carry the placeholder rank A).
RankOf(c) == IF IsJoker(c) THEN "A" ELSE RANKS[((c - 1) % 13) + 1]

\* The Card object behind a card: the fields JSON.stringify writes out.
CardObject(c) ==
    [id |-> c, suit |-> SuitOf(c), rank |-> RankOf(c), isJoker |-> IsJoker(c)]

\* saveRoom: room.deckState = { cards: deck.cards }, written as JSON: the
\* text lists the cards in array order, each by its fields.
stringify(cards) ==
    [k \in 1..Len(cards) |->
        <<"id", CardObject(cards[k]).id, "suit", CardObject(cards[k]).suit,
          "rank", CardObject(cards[k]).rank,
          "isJoker", CardObject(cards[k]).isJoker>>]

\* getRoom: the stored text parsed back into deckState (safeParse, or the
\* client's own parsing): one Card object per element, in array order.
safeParse(text) ==
    [cards |-> [k \in 1..Len(text) |->
                   [id |-> text[k][2], suit |-> text[k][4],
                    rank |-> text[k][6], isJoker |-> text[k][8]]]]

\* Deck.fromState that keeps the cards of the Deck it constructs.
fromStateConstructed(state) == initialize(0, 0)

\* Deck.fromState: new Deck(0, 0), whose cards are then replaced by
\* state.cards; a card is named by its id.
fromState(state) ==
    LET constructed == initialize(0, 0)
    IN [k \in 1..Len(state.cards) |-> state.cards[k].id]

\* The decks createRoom can produce: new Deck(2, 2) then shuffle().
ShuffledDeck(rnd) == shuffle(initialize(NumDecks, NumJokers), rnd)

FreshDecks == [rnd \in RandomSources |-> ShuffledDeck(rnd)]

---------------------------------------------------------------------------
(* Helpers on sequences.                                                   *)

Range(s) == {s[i] : i \in 1..Len(s)}

\* Array.prototype.findIndex on player ids, 1-based; 0 when absent.
findIndex(players, id) ==
    IF \E i \in 1..Len(players) : players[i].id = id
    THEN CHOOSE i \in 1..Len(players) :
            /\ players[i].id = id
            /\ \A k \in 1..(i - 1) : players[k].id # id
    ELSE 0

\* Array.prototype.splice(index, 1) with a 1-based index.
\* A removal that fills the gap with the last element.
RemoveAtSwap(s, i) ==
    IF i = Len(s) THEN SubSeq(s, 1, i - 1)
    ELSE SubSeq([s EXCEPT ![i] = s[Len(s)]], 1, Len(s) - 1)

RemoveAt(s, i) == SubSeq(s, 1, i - 1) \o SubSeq(s, i + 1, Len(s))

\* hand.sort((a, b) => a.suit.localeCompare(b.suit)): a stable sort on suit.
RECURSIVE sortBySuitFrom(_, _)
sortBySuitFrom(hand, k) ==
    IF k > Len(SuitOrder) THEN <<>>
    ELSE SelectSeq(hand, LAMBDA c : SuitOf(c) = SuitOrder[k])
         \o sortBySuitFrom(hand, k + 1)

sortBySuit(hand) == sortBySuitFrom(hand, 1)

\* socket.emit (to a socket id) and io.to(roomId).emit (to "room").
Emit(ev, to) == [ev |-> ev, to |-> to]

\* socket.emit('error', message).
Error(message, to) == [ev |-> "error", to |-> to, message |-> message]

\* io.to(roomId).emit(ev, room.gameState): the event carries the gameState of
\* the handler's room as it is when emitted.  Its players are the list of
\* gameState, which is room.players only where the handler assigns it.
Broadcast(ev, room) ==
    [ev |-> ev, to |-> "room", room |-> room.id,
     gameState |-> [status |-> room.status,
                    winner |-> room.winner,
                    players |-> [k \in 1..Len(room.gsPlayers) |-> room.gsPlayers[k].id],
                    currentTurnPlayerId |-> room.currentTurnPlayerId]]

\* io.to(roomId).emit('game-ended', { winnerId, reason }).
Ended(roomId, winnerId) ==
    [ev |-> "game-ended", to |-> "room", room |-> roomId, winnerId |-> winnerId]

\* What a handler returns to the store: the room as mutated locally, whether
\* saveRoom ran (and so wrote that room), and the events emitted.
Result(room, save, emits) == [room |-> room, save |-> save, emits |-> emits]

\* A handler that ends with saveRoom and the broadcast of the room it saved.
Saved(room, ev) == Result(room, TRUE, <<Broadcast(ev, room)>>)

---------------------------------------------------------------------------
(* RoomManager, one operator per method: the local mutation between        *)
(* getRoom and saveRoom.                                                   *)

\* createRoom: the RoomData first saved.
createRoom(roomId, maxPlayers, deck) ==
    [id |-> roomId,
     players |-> <<>>,
     gsPlayers |-> <<>>,
     currentTurnPlayerId |-> "",
     deckCount |-> Len(deck),
     discardPile |-> <<>>,
     status |-> "waiting",
     maxPlayers |-> maxPlayers,
     winner |-> "",
     deck |-> deck]

newPlayer(id) == [id |-> id, hand |-> <<>>, isMyTurn |-> FALSE]

\* joinRoom answering a player already on the roster with a broadcast.
joinRoomBroadcast(room, id) ==
    IF findIndex(room.players, id) # 0
        THEN Result(room, FALSE, <<Broadcast("player-joined", room)>>)
    ELSE IF Len(room.players) >= room.maxPlayers
        THEN Result(room, FALSE, <<Error("Room is full", id)>>)
    ELSE IF room.status # "waiting"
        THEN Result(room, FALSE, <<Error("Game already started", id)>>)
    ELSE LET joined == Append(room.players, newPlayer(id))
         IN Saved([room EXCEPT !.players = joined, !.gsPlayers = joined],
                  "player-joined")

\* joinRoom without the test of players.length against maxPlayers.
joinRoomNoLimit(room, id) ==
    IF findIndex(room.players, id) # 0
        THEN Result(room, FALSE, <<Emit("player-joined", id)>>)
    ELSE IF room.status # "waiting"
        THEN Result(room, FALSE, <<Error("Game already started", id)>>)
    ELSE LET joined == Append(room.players, newPlayer(id))
         IN Saved([room EXCEPT !.players = joined, !.gsPlayers = joined],
                  "player-joined")

\* joinRoom, for a room that exists.
joinRoom(room, id) ==
    IF findIndex(room.players, id) # 0
        THEN Result(room, FALSE, <<Emit("player-joined", id)>>)
    ELSE IF Len(room.players) >= room.maxPlayers
        THEN Result(room, FALSE, <<Error("Room is full", id)>>)
    ELSE IF room.status # "waiting"
        THEN Result(room, FALSE, <<Error("Game already started", id)>>)
    ELSE LET joined == Append(room.players, newPlayer(id))
         IN Saved([room EXCEPT !.players = joined, !.gsPlayers = joined],
                  "player-joined")

\* The forEach of startGame: each player in turn takes deck.deal(13), sorted.
RECURSIVE dealHands(_, _, _)
dealHands(players, cards, i) ==
    IF i > Len(players) THEN [players |-> players, rest |-> cards]
    ELSE LET d == deal(cards, HandSize)
         IN dealHands([players EXCEPT ![i].hand = sortBySuit(d.dealt)],
                      d.rest, i + 1)

\* startGame, for a room that exists.
startGame(room) ==
    IF Len(room.players) < MinPlayers THEN Result(room, FALSE, <<>>)
    ELSE LET dealt == dealHands(room.players, room.deck, 1)
             open == draw(dealt.rest)
         IN Saved([room EXCEPT
                     !.status = "playing",
                     !.players = [dealt.players EXCEPT ![1].isMyTurn = TRUE],
                     !.discardPile = room.discardPile \o open.card,
                     !.currentTurnPlayerId = room.players[1].id,
                     !.deck = open.rest,
                     !.deckCount = Len(open.rest)],
                  "game-started")

\* takeCard without the update of deckCount.
takeCardStaleCount(room, i, card, deck, pile) ==
    [room EXCEPT !.players[i].hand = Append(@, card),
                 !.deck = deck,
                 !.discardPile = pile]

\* takeCard with hand.unshift(card) for hand.push(card).
takeCardFront(room, i, card, deck, pile) ==
    [room EXCEPT !.players[i].hand = <<card>> \o @,
                 !.deck = deck,
                 !.discardPile = pile,
                 !.deckCount = Len(deck)]

\* The end of drawCard: the card is pushed on the hand of player i, deckCount
\* is set to deck.count and the room goes to saveRoom with its deck and pile.
takeCard(room, i, card, deck, pile) ==
    [room EXCEPT !.players[i].hand = Append(@, card),
                 !.deck = deck,
                 !.discardPile = pile,
                 !.deckCount = Len(deck)]

\* drawCard, for a room that exists.
drawCard(room, id, fromDiscard) ==
    LET i == findIndex(room.players, id)
    IN IF i = 0 \/ ~room.players[i].isMyTurn THEN Result(room, FALSE, <<>>)
       ELSE IF Len(room.players[i].hand) >= DrawLimit THEN Result(room, FALSE, <<>>)
       ELSE IF fromDiscard
         THEN IF Len(room.discardPile) = 0 THEN Result(room, FALSE, <<>>)
              ELSE LET n == Len(room.discardPile)
                   IN Saved(takeCard(room, i, room.discardPile[n], room.deck,
                                     SubSeq(room.discardPile, 1, n - 1)),
                            "game-update")
         ELSE LET d == draw(room.deck)
              IN IF d.card = <<>>
                   THEN IF Len(room.discardPile) > 0
                          THEN Result(room, FALSE,
                                      <<Error("Deck Empty - Game Over (Demo)", id)>>)
                          ELSE Result(room, FALSE, <<>>)
                   ELSE Saved(takeCard(room, i, d.card[1], d.rest, room.discardPile),
                              "game-update")

\* findCard answering the first card of the hand for an id the hand lacks.
findCardOrFirst(hand, cardId) ==
    IF \E k \in 1..Len(hand) : hand[k] = cardId
    THEN CHOOSE k \in 1..Len(hand) :
            /\ hand[k] = cardId
            /\ \A m \in 1..(k - 1) : hand[m] # cardId
    ELSE Min(1, Len(hand))

\* Array.prototype.findIndex on the card ids of a hand, 1-based; 0 when absent.
findCard(hand, cardId) ==
    IF \E k \in 1..Len(hand) : hand[k] = cardId
    THEN CHOOSE k \in 1..Len(hand) :
            /\ hand[k] = cardId
            /\ \A m \in 1..(k - 1) : hand[m] # cardId
    ELSE 0

\* nextPlayerIndex without the wrap to the first player.
nextPlayerIndexNoWrap(i, n) == Min(i + 1, n)

\* (currentPlayerIndex + 1) % room.players.length, on 1-based indices.
nextPlayerIndex(i, n) == (i % n) + 1

\* discardCard, for a room that exists.
discardCard(room, id, cardId) ==
    LET i == findIndex(room.players, id)
    IN IF i = 0 \/ ~room.players[i].isMyTurn THEN Result(room, FALSE, <<>>)
       ELSE IF Len(room.players[i].hand) # DrawLimit THEN Result(room, FALSE, <<>>)
       ELSE LET k == findCard(room.players[i].hand, cardId)
            IN IF k = 0 THEN Result(room, FALSE, <<>>)
               ELSE LET next == nextPlayerIndex(i, Len(room.players))
                        p1 == [room.players EXCEPT
                                 ![i].hand = RemoveAt(@, k),
                                 ![i].isMyTurn = FALSE]
                    IN Saved([room EXCEPT
                                !.discardPile = Append(@, room.players[i].hand[k]),
                                !.players = [p1 EXCEPT ![next].isMyTurn = TRUE],
                                !.currentTurnPlayerId = room.players[next].id],
                             "game-update")

\* rearrangeHand giving the new order to the first player of the roster.
rearrangeHandOfFirst(room, id, newOrderIds) ==
    LET i == findIndex(room.players, id)
    IN IF i = 0 THEN Result(room, FALSE, <<>>)
       ELSE LET hand == room.players[i].hand
            IN IF Len(newOrderIds) # Len(hand)
                  \/ ~(\A k \in 1..Len(newOrderIds) : newOrderIds[k] \in Range(hand))
                 THEN Result(room, FALSE, <<>>)
                 ELSE Saved([room EXCEPT !.players[1].hand = newOrderIds],
                            "game-update")

\* rearrangeHand, for a room that exists.
rearrangeHand(room, id, newOrderIds) ==
    LET i == findIndex(room.players, id)
    IN IF i = 0 THEN Result(room, FALSE, <<>>)
       ELSE LET hand == room.players[i].hand
            IN IF Len(newOrderIds) # Len(hand)
                  \/ ~(\A k \in 1..Len(newOrderIds) : newOrderIds[k] \in Range(hand))
                 THEN Result(room, FALSE, <<>>)
                 ELSE Saved([room EXCEPT !.players[i].hand = newOrderIds],
                            "game-update")

\* debugWin, for a room that exists.
debugWin(room, id) ==
    IF findIndex(room.players, id) = 0 THEN Result(room, FALSE, <<>>)
    ELSE Result([room EXCEPT !.status = "ended", !.winner = id],
                TRUE, <<Ended(room.id, id)>>)

\* passTurn that leaves the turn with the player who left.
passTurnDropped(room, rest, i) == [room EXCEPT !.players = rest]

\* The roster after player i of a game in progress was spliced out (rest): if
\* that player had isMyTurn, it is set on the player now at that index, or on
\* the first when the index is past the end, who becomes currentTurnPlayerId.
passTurn(room, rest, i) ==
    LET nextIdx == IF i > Len(rest) THEN 1 ELSE i
        passed == room.players[i].isMyTurn /\ Len(rest) > 0
    IN [room EXCEPT
          !.players = IF passed THEN [rest EXCEPT ![nextIdx].isMyTurn = TRUE]
                      ELSE rest,
          !.currentTurnPlayerId = IF passed THEN rest[nextIdx].id ELSE @]

\* The room part of handleDisconnect, for a room that exists.
leaveRoom(room, id) ==
    LET i == findIndex(room.players, id)
    IN IF i = 0 THEN Result(room, FALSE, <<>>)
       ELSE IF room.status = "playing"
         THEN IF Len(room.players) = 2
                THEN \* status and winner are set on the local copy only
                     Result([room EXCEPT !.status = "ended",
                                         !.winner = room.players[3 - i].id],
                            FALSE, <<Ended(room.id, room.players[3 - i].id)>>)
                ELSE LET rest == RemoveAt(room.players, i)
                         saved == passTurn(room, rest, i)
                     IN Result(saved, TRUE,
                               <<Broadcast("player-left", saved)>>
                               \o (IF Len(rest) = 1
                                     THEN <<Ended(room.id, rest[1].id)>>
                                     ELSE <<>>))
         ELSE Saved([room EXCEPT !.players = RemoveAt(@, i)],
                    "player-left")


---------------------------------------------------------------------------
(* The store and the socket event handlers, each run to completion.        *)

\* Game sizes sent with join-queue.
QueueSizes == {2}

\* Room ids a client sends: of rooms that exist or existed, or of none.
RoomIds == {RoomSeq[k] : k \in 1..nextRoom} \cup {Missing}

\* A socket has left a trace once a stored record names it or it has gone.
Traced(s) ==
    \/ s \in closed
    \/ s \in DOMAIN socketRoom
    \/ s \in DOMAIN queueRef
    \/ \E r \in DOMAIN rooms : \E i \in 1..Len(rooms[r].players) :
          rooms[r].players[i].id = s

\* The sockets that send events.  Socket ids are opaque tokens, so sockets are
\* named in the order in which they first leave a trace: SocketSeq[i + 1]
\* sends nothing before SocketSeq[i] has left one.
Connected ==
    {SocketSeq[i] : i \in {k \in 1..Len(SocketSeq) :
                              /\ k <= MaxSockets \/ Traced(SocketSeq[k])
                              /\ \A m \in 1..(k - 1) : Traced(SocketSeq[m])}} \ closed

NoHandlers == <<>>

\* No Deck object is held outside the rooms.
NoDeck == <<>>

\* Nothing has been handed to the validator.
NoCards == <<>>

Init ==
    /\ rooms = <<>>
    /\ socketRoom = <<>>
    /\ queues = [g \in QueueSizes |-> <<>>]
    /\ queueRef = <<>>
    /\ timers = {}
    /\ closed = {}
    /\ nextRoom = 0
    /\ inflight = NoHandlers
    /\ jq = NoHandlers
    /\ last = [op |-> "init", emits |-> <<>>]
    /\ ops = 0
    /\ budget = [ops |-> MaxOps, rooms |-> 1]
    /\ oneDeck = NoDeck
    /\ judged = NoCards

\* redis.set / redis.del on a keyed record.
Put(store, key, value) ==
    [k \in (DOMAIN store) \cup {key} |-> IF k = key THEN value ELSE store[k]]

Del(store, key) == [k \in (DOMAIN store) \ {key} |-> store[k]]

\* redis.lrem(key, 0, element): every element equal to it is removed.
lrem(list, element) == SelectSeq(list, LAMBDA e : e # element)

\* ops counts the handler runs that changed a stored record.
Count ==
    /\ ops < budget.ops
    /\ UNCHANGED <<budget, oneDeck, judged>>
    /\ ops' = IF <<rooms, socketRoom, queues, queueRef, timers>>'
              = <<rooms, socketRoom, queues, queueRef, timers>>
               THEN ops ELSE ops + 1

\* getRoom, local mutation, saveRoom for a handler that touches only the room.
RoomStep(roomId, res) ==
    /\ rooms' = IF res.save THEN Put(rooms, roomId, res.room) ELSE rooms
    /\ UNCHANGED <<socketRoom, queues, queueRef, timers, closed, nextRoom, inflight, jq>>

\* socket.on("create-room"): createRoom, then joinRoom for the creator.  The
\* id is the one uuidv4 happens to give: here, the next id not yet used.
OnCreateRoom(s, maxPlayers, rnd) ==
    /\ s \in Connected
    /\ nextRoom < budget.rooms
    /\ LET roomId == RoomSeq[nextRoom + 1]
           res == joinRoom(createRoom(roomId, maxPlayers, FreshDecks[rnd]), s)
       IN /\ rooms' = Put(rooms, roomId, res.room)
          /\ socketRoom' = IF res.save THEN Put(socketRoom, s, roomId) ELSE socketRoom
          /\ last' = [op |-> "create-room", emits |-> res.emits]
    /\ nextRoom' = nextRoom + 1
    /\ UNCHANGED <<queues, queueRef, timers, closed, inflight, jq>>
    /\ Count

\* The same handler when uuidv4().slice(0, 6) may give any id of the id
\* space, one in use included: createRoom does not look the id up, and
\* saveRoom is a plain redis.set.
OnCreateRoomAs(s, roomId, maxPlayers, rnd) ==
    /\ s \in Connected
    /\ nextRoom < budget.rooms
    /\ LET res == joinRoom(createRoom(roomId, maxPlayers, FreshDecks[rnd]), s)
       IN /\ rooms' = Put(rooms, roomId, res.room)
          /\ socketRoom' = IF res.save THEN Put(socketRoom, s, roomId) ELSE socketRoom
          /\ last' = [op |-> "create-room", emits |-> res.emits]
    /\ nextRoom' = nextRoom + 1
    /\ UNCHANGED <<queues, queueRef, timers, closed, inflight, jq>>
    /\ Count

\* The entry rpush appends for a socket: its id (the name plays no part).
playerInfo(s) == s

\* joinEach without the lookup of the player's socket.
RECURSIVE joinEachUnresolved(_, _)
joinEachUnresolved(room, ids) ==
    IF ids = <<>> THEN room
    ELSE joinEachUnresolved(joinRoom(room, Head(ids)).room, Tail(ids))

\* joinRoom called in turn for the popped entries whose socket is connected.
RECURSIVE joinEach(_, _)
joinEach(room, ids) ==
    IF ids = <<>> THEN room
    ELSE joinEach(IF Head(ids) \in closed THEN room
                  ELSE joinRoom(room, Head(ids)).room, Tail(ids))

\* The end of joinQueue, once lpop has returned gameSize entries: their
\* queue_ref records are deleted, a room is created and each connected player
\* joins it.
Match(playersRaw, gameSize, rnd) ==
    /\ nextRoom < budget.rooms
    /\ LET roomId == RoomSeq[nextRoom + 1]
           joining == Range(playersRaw) \ closed
       IN /\ rooms' = Put(rooms, roomId,
                          joinEach(createRoom(roomId, gameSize, FreshDecks[rnd]),
                                   playersRaw))
          /\ socketRoom' = [p \in DOMAIN socketRoom \cup joining |->
                              IF p \in joining THEN roomId ELSE socketRoom[p]]
    /\ nextRoom' = nextRoom + 1

\* socket.on("join-queue"): joinQueue.
OnJoinQueue(s, gameSize, rnd) ==
    /\ s \in Connected
    /\ LET q == Append(queues[gameSize], playerInfo(s))
           ref == Put(queueRef, s, [gameSize |-> gameSize,
                                    playerInfo |-> playerInfo(s)])
       IN IF Len(q) >= gameSize
            THEN LET playersRaw == SubSeq(q, 1, gameSize)
                 IN /\ queues' = [queues EXCEPT ![gameSize] =
                                       SubSeq(q, gameSize + 1, Len(q))]
                    /\ queueRef' = [p \in DOMAIN ref \ Range(playersRaw) |-> ref[p]]
                    /\ Match(playersRaw, gameSize, rnd)
                    /\ last' = [op |-> "join-queue",
                                emits |-> <<Broadcast("player-joined",
                                                      rooms'[RoomSeq[nextRoom + 1]])>>]
            ELSE /\ queues' = [queues EXCEPT ![gameSize] = q]
                 /\ queueRef' = ref
                 /\ last' = [op |-> "join-queue",
                             emits |-> <<Emit("queue-joined", s)>>]
                 /\ UNCHANGED <<rooms, socketRoom, nextRoom>>
    /\ UNCHANGED <<timers, closed, inflight, jq>>
    /\ Count

\* socket.on("join-room").
OnJoinRoom(s, roomId) ==
    /\ s \in Connected
    /\ IF roomId \notin DOMAIN rooms
         THEN /\ last' = [op |-> "join-room", emits |-> <<Error("Room not found", s)>>]
              /\ UNCHANGED <<rooms, socketRoom>>
         ELSE LET res == joinRoom(rooms[roomId], s)
              IN /\ rooms' = IF res.save THEN Put(rooms, roomId, res.room) ELSE rooms
                 /\ socketRoom' =
                      IF res.save \/ findIndex(rooms[roomId].players, s) # 0
                        THEN Put(socketRoom, s, roomId) ELSE socketRoom
                 /\ last' = [op |-> "join-room", emits |-> res.emits]
    /\ UNCHANGED <<queues, queueRef, timers, closed, nextRoom, inflight, jq>>
    /\ Count

\* socket.on("start-game"): any connected socket may send it; the handler
\* does not read which.
OnStartGame(roomId) ==
    /\ Connected # {}
    /\ LET res == IF roomId \in DOMAIN rooms THEN startGame(rooms[roomId])
                  ELSE Result(<<>>, FALSE, <<>>)
       IN /\ RoomStep(roomId, res)
          /\ last' = [op |-> "start-game", emits |-> res.emits]
    /\ Count

\* socket.on("draw-card").
OnDrawCard(s, roomId, fromDiscard) ==
    /\ s \in Connected
    /\ LET res == IF roomId \in DOMAIN rooms THEN drawCard(rooms[roomId], s, fromDiscard)
                  ELSE Result(<<>>, FALSE, <<>>)
       IN /\ RoomStep(roomId, res)
          /\ last' = [op |-> "draw-card", emits |-> res.emits]
    /\ Count

\* The hand of socket s in a room of the store (<<>> when it has none).
HandOf(s, roomId) ==
    IF roomId \in DOMAIN rooms /\ findIndex(rooms[roomId].players, s) # 0
      THEN rooms[roomId].players[findIndex(rooms[roomId].players, s)].hand
      ELSE <<>>

\* Card ids a client sends with discard-card: the first or the last card it
\* holds, or an id that is no card.
DiscardChoices(hand) ==
    {0} \cup (IF hand = <<>> THEN {} ELSE {hand[1], hand[Len(hand)]})

\* socket.on("discard-card").
OnDiscardCard(s, roomId, cardId) ==
    /\ s \in Connected
    /\ LET res == IF roomId \in DOMAIN rooms THEN discardCard(rooms[roomId], s, cardId)
                  ELSE Result(<<>>, FALSE, <<>>)
       IN /\ RoomStep(roomId, res)
          /\ last' = [op |-> "discard-card", emits |-> res.emits]
    /\ Count

Reverse(seq) == [k \in 1..Len(seq) |-> seq[Len(seq) + 1 - k]]

\* Orders a client sends with rearrange-hand: its hand reversed, its hand
\* without the first card, its hand with the first card repeated over the
\* second.
RearrangeChoices(hand) ==
    {Reverse(hand)}
    \cup (IF hand = <<>> THEN {} ELSE {Tail(hand)})
    \cup (IF Len(hand) < 2 THEN {} ELSE {[hand EXCEPT ![2] = hand[1]]})

\* socket.on("rearrange-hand").
OnRearrangeHand(s, roomId, newOrderIds) ==
    /\ s \in Connected
    /\ LET res == IF roomId \in DOMAIN rooms
                    THEN rearrangeHand(rooms[roomId], s, newOrderIds)
                    ELSE Result(<<>>, FALSE, <<>>)
       IN /\ RoomStep(roomId, res)
          /\ last' = [op |-> "rearrange-hand", emits |-> res.emits]
    /\ Count

\* socket.on("debug-win"): the room is saved and its deletion is scheduled.
OnDebugWin(s, roomId) ==
    /\ s \in Connected
    /\ LET res == IF roomId \in DOMAIN rooms THEN debugWin(rooms[roomId], s)
                  ELSE Result(<<>>, FALSE, <<>>)
       IN /\ rooms' = IF res.save THEN Put(rooms, roomId, res.room) ELSE rooms
          /\ timers' = IF res.save THEN timers \cup {roomId} ELSE timers
          /\ last' = [op |-> "debug-win", emits |-> res.emits]
    /\ UNCHANGED <<socketRoom, queues, queueRef, closed, nextRoom, inflight, jq>>
    /\ Count

\* The callback of setTimeout in debugWin: redis.del of the room.
TimerFire(roomId) ==
    /\ roomId \in timers
    /\ rooms' = Del(rooms, roomId)
    /\ timers' = timers \ {roomId}
    /\ last' = [op |-> "timer", emits |-> <<>>]
    /\ UNCHANGED <<socketRoom, queues, queueRef, closed, nextRoom, inflight, jq>>
    /\ Count

\* socket.on("disconnect"): handleDisconnect.
OnDisconnect(s) ==
    /\ s \in Connected
    /\ closed' = closed \cup {s}
    /\ IF s \in DOMAIN queueRef
         THEN /\ queues' = [queues EXCEPT ![queueRef[s].gameSize] =
                                lrem(@, queueRef[s].playerInfo)]
              /\ queueRef' = Del(queueRef, s)
         ELSE UNCHANGED <<queues, queueRef>>
    /\ socketRoom' = Del(socketRoom, s)
    /\ IF s \in DOMAIN socketRoom /\ socketRoom[s] \in DOMAIN rooms
         THEN LET roomId == socketRoom[s]
                  res == leaveRoom(rooms[roomId], s)
              IN /\ rooms' = IF res.save THEN Put(rooms, roomId, res.room) ELSE rooms
                 /\ last' = [op |-> "disconnect", emits |-> res.emits]
         ELSE /\ UNCHANGED rooms
              /\ last' = [op |-> "disconnect", emits |-> <<>>]
    /\ UNCHANGED <<timers, nextRoom, inflight, jq>>
    /\ Count

\* Handlers of a room that exists: every event but create-room.
RoomNext ==
    \/ \E s \in Connected, r \in RoomIds : OnJoinRoom(s, r)
    \/ \E r \in RoomIds : OnStartGame(r)
    \/ \E s \in Connected, r \in RoomIds, fd \in BOOLEAN : OnDrawCard(s, r, fd)
    \/ \E s \in Connected, r \in RoomIds :
         \E c \in DiscardChoices(HandOf(s, r)) : OnDiscardCard(s, r, c)
    \/ \E s \in Connected, r \in RoomIds :
         \E o \in RearrangeChoices(HandOf(s, r)) : OnRearrangeHand(s, r, o)
    \/ \E s \in Connected, r \in RoomIds : OnDebugWin(s, r)
    \/ \E r \in RoomIds : TimerFire(r)
    \/ \E s \in Connected : OnDisconnect(s)

Next ==
    \/ \E s \in Connected, m \in MaxPlayersChoices, rnd \in RandomSources :
         OnCreateRoom(s, m, rnd)
    \/ \E s \in Connected, g \in QueueSizes, rnd \in RandomSources :
         OnJoinQueue(s, g, rnd)
    \/ RoomNext

Spec == Init /\ [][Next]_vars


---------------------------------------------------------------------------
(* Rooms further into their life, each built by the handlers above from a  *)
(* room that createRoom made, as initial states of the specifications that *)
(* follow.                                                                 *)

\* joinRoom called in turn by SocketSeq[1..n].
RECURSIVE joinAll(_, _)
joinAll(room, n) ==
    IF n = 0 THEN room ELSE joinRoom(joinAll(room, n - 1), SocketSeq[n]).room

\* A room in which SocketSeq[1..n] wait for the game to start.
Lobby(maxPlayers, n, rnd) ==
    joinAll(createRoom(RoomSeq[1], maxPlayers, FreshDecks[rnd]), n)

\* The index of the player whose isMyTurn is set (the first, if several).
turnIndex(room) ==
    CHOOSE i \in 1..Len(room.players) :
        /\ room.players[i].isMyTurn
        /\ \A k \in 1..(i - 1) : ~room.players[k].isMyTurn

\* One turn: the turn-holder draws from the deck and discards that card.
playRound(room) ==
    LET id == room.players[turnIndex(room)].id
        drawn == drawCard(room, id, FALSE).room
        hand == drawn.players[turnIndex(room)].hand
    IN discardCard(drawn, id, hand[Len(hand)]).room

\* k turns in a row (the count is halved, and the first half played first, so
\* that the evaluation does not nest once per turn).
RECURSIVE playRounds(_, _)
playRounds(room, k) ==
    IF k <= 0 THEN room
    ELSE IF k = 1 THEN playRound(room)
    ELSE LET half == k \div 2
             first == playRounds(room, half)
         IN IF first.status = "playing" THEN playRounds(first, k - half)
            ELSE first

\* A game of n players just started.
Started(n, rnd) == startGame(Lobby(n, n, rnd)).room

\* A two-player game played until left cards remain in the deck.
Late(left, rnd) ==
    LET game == Started(2, rnd)
    IN playRounds(game, Len(game.deck) - left)

\* The store holding one room, its players' sockets indexed.
InitWith(room, runs) ==
    /\ rooms = (room.id :> room)
    /\ socketRoom = [s \in {room.players[i].id : i \in 1..Len(room.players)}
                       |-> room.id]
    /\ queues = [g \in QueueSizes |-> <<>>]
    /\ queueRef = <<>>
    /\ timers = {}
    /\ closed = {}
    /\ nextRoom = 1
    /\ inflight = NoHandlers
    /\ jq = NoHandlers
    /\ last = [op |-> "init", emits |-> <<>>]
    /\ ops = 0
    /\ budget = [ops |-> runs, rooms |-> 1]
    /\ oneDeck = NoDeck
    /\ judged = NoCards

\* Cards left in the deck of a late game.
MaxDeckLeft == 2

\* Handler runs explored from a game in progress.
MaxGameOps == 3

\* Games in progress: just started with two or three players, or played by
\* two players until the deck is nearly empty.
InitGame ==
    \E room \in {Started(n, rnd) : n \in {2, 3}, rnd \in RandomSources}
                \cup {Late(left, rnd) : left \in 0..MaxDeckLeft, rnd \in RandomSources} :
        InitWith(room, MaxGameOps)

SpecGame == InitGame /\ [][RoomNext]_vars

\* Numbers of players waiting in a lobby: up to the default maxPlayers, and one
\* more than the deck can deal to.
LobbySizes == {2, 3, 4, 5, 6, 9}

\* Handler runs explored from a lobby.
MaxDealOps == 2

InitDeal ==
    \E n \in LobbySizes, rnd \in RandomSources :
        InitWith(Lobby(IF n <= 6 THEN 6 ELSE n, n, rnd), MaxDealOps)

SpecDeal == InitDeal /\ [][RoomNext]_vars


\* Handler runs explored from a game of four.
MaxTurnOps == 8

\* A game of four just started, in which the players only draw and discard.
InitTurn == \E rnd \in RandomSources : InitWith(Started(4, rnd), MaxTurnOps)

TurnNext ==
    \/ \E s \in Connected, r \in RoomIds, fd \in BOOLEAN : OnDrawCard(s, r, fd)
    \/ \E s \in Connected, r \in RoomIds :
         \E c \in DiscardChoices(HandOf(s, r)) : OnDiscardCard(s, r, c)

SpecTurn == InitTurn /\ [][TurnNext]_vars

\* Handler runs explored from a game of three or four.
MaxLeaveOps == 2

\* Games of three or four players in which each player in turn may be the one
\* to move: started, then played for fewer turns than there are players.
InitLeave ==
    \E n \in {3, 4}, rnd \in RandomSources :
        \E k \in 0..(n - 1) :
            InitWith(playRounds(Started(n, rnd), k), MaxLeaveOps)

SpecLeave == InitLeave /\ [][RoomNext]_vars

\* Handler runs explored from a store that holds a room.
MaxCreateOps == 2

\* A store that holds a lobby or a game, in which one more room is created.
InitCreate ==
    \E room \in {Lobby(6, n, rnd) : n \in {1, 2}, rnd \in RandomSources}
                \cup {Started(2, rnd) : rnd \in RandomSources} :
        /\ rooms = (room.id :> room)
        /\ socketRoom = [s \in {room.players[i].id : i \in 1..Len(room.players)}
                           |-> room.id]
        /\ queues = [g \in QueueSizes |-> <<>>]
        /\ queueRef = <<>>
        /\ timers = {}
        /\ closed = {}
        /\ nextRoom = 1
        /\ inflight = NoHandlers
        /\ jq = NoHandlers
        /\ last = [op |-> "init", emits |-> <<>>]
        /\ ops = 0
        /\ budget = [ops |-> MaxCreateOps, rooms |-> 2]
        /\ oneDeck = NoDeck
        /\ judged = NoCards

CreateNext ==
    \/ \E s \in Connected, m \in MaxPlayersChoices, rnd \in RandomSources :
         \E roomId \in Range(RoomSeq) : OnCreateRoomAs(s, roomId, m, rnd)
    \/ RoomNext

SpecCreate == InitCreate /\ [][CreateNext]_vars

\* Game sizes asked for by the sockets that wait for a match.
WaitSizes == {2, 3}

\* Handler runs explored from an empty store by sockets that wait for a match.
MaxWaitOps == 4

InitWait ==
    /\ rooms = <<>>
    /\ socketRoom = <<>>
    /\ queues = [g \in WaitSizes |-> <<>>]
    /\ queueRef = <<>>
    /\ timers = {}
    /\ closed = {}
    /\ nextRoom = 0
    /\ inflight = NoHandlers
    /\ jq = NoHandlers
    /\ last = [op |-> "init", emits |-> <<>>]
    /\ ops = 0
    /\ budget = [ops |-> MaxWaitOps, rooms |-> 1]
    /\ oneDeck = NoDeck
    /\ judged = NoCards

\* Sockets that join queues and disconnect.
WaitNext ==
    \/ \E s \in Connected, g \in WaitSizes, rnd \in RandomSources :
         OnJoinQueue(s, g, rnd)
    \/ \E s \in Connected : OnDisconnect(s)

SpecWait == InitWait /\ [][WaitNext]_vars

\* Handler runs and expiries explored for players who wait for a game of three.
MaxExpireOps == 4

InitExpire ==
    /\ rooms = <<>>
    /\ socketRoom = <<>>
    /\ queues = (3 :> <<>>)
    /\ queueRef = <<>>
    /\ timers = {}
    /\ closed = {}
    /\ nextRoom = 0
    /\ inflight = NoHandlers
    /\ jq = NoHandlers
    /\ last = [op |-> "init", emits |-> <<>>]
    /\ ops = 0
    /\ budget = [ops |-> MaxExpireOps, rooms |-> 1]
    /\ oneDeck = NoDeck
    /\ judged = NoCards

\* The store drops queue_ref:<id> once the hour given with { ex: 3600 } has
\* passed; the entry in the list has no expiry of its own.
ExpireQueueRef(s) ==
    /\ s \in DOMAIN queueRef
    /\ queueRef' = Del(queueRef, s)
    /\ last' = [op |-> "expire", emits |-> <<>>]
    /\ UNCHANGED <<rooms, socketRoom, queues, timers, closed, nextRoom, inflight, jq>>
    /\ Count

\* Sockets that join the queue, wait long enough, and disconnect.
ExpireNext ==
    \/ \E s \in Connected, g \in DOMAIN queues, rnd \in RandomSources :
         OnJoinQueue(s, g, rnd)
    \/ \E s \in Sockets : ExpireQueueRef(s)
    \/ \E s \in Connected : OnDisconnect(s)

SpecExpire == InitExpire /\ [][ExpireNext]_vars

---------------------------------------------------------------------------
(* A Deck object on its own: built by new Deck(numDecks, numJokers), then  *)
(* shuffled, dealt from and drawn from.                                    *)

\* Numbers of decks and of jokers a Deck is built with.
MaxDecks == 2

MaxJokers == 2

\* Calls made on one Deck object.
MaxDeckOps == 3

\* Outcomes of Math.random() explored by shuffle on its own.
DeckSources == RandomSources \cup {"hi"}

\* Numbers of cards asked of deal: none, one, a hand, more than two decks hold.
DealSizes == {0, 1, HandSize, 120}

InitDeck ==
    /\ rooms = <<>>
    /\ socketRoom = <<>>
    /\ queues = [g \in QueueSizes |-> <<>>]
    /\ queueRef = <<>>
    /\ timers = {}
    /\ closed = {}
    /\ nextRoom = 0
    /\ inflight = NoHandlers
    /\ jq = NoHandlers
    /\ last = [op |-> "new Deck", emits |-> <<>>]
    /\ ops = 0
    /\ budget = [ops |-> MaxDeckOps, rooms |-> 0]
    /\ \E numDecks \in 0..MaxDecks, numJokers \in 0..MaxJokers :
         oneDeck = [numDecks |-> numDecks, numJokers |-> numJokers,
                 cards |-> initialize(numDecks, numJokers),
                 arg |-> 0, returned |-> <<>>]
    /\ judged = NoCards

\* One call on the Deck object.
DeckCall(op) ==
    /\ oneDeck # NoDeck
    /\ ops < budget.ops
    /\ ops' = ops + 1
    /\ last' = [op |-> op, emits |-> <<>>]
    /\ UNCHANGED <<rooms, socketRoom, queues, queueRef, timers, closed, nextRoom,
                   inflight, jq, budget, judged>>

\* deck.shuffle().
DeckShuffle(rnd) ==
    /\ DeckCall("shuffle")
    /\ oneDeck' = [oneDeck EXCEPT !.cards = shuffle(oneDeck.cards, rnd),
                               !.arg = 0, !.returned = <<>>]

\* deck.deal(numCards).
DeckDeal(numCards) ==
    /\ DeckCall("deal")
    /\ oneDeck' = [oneDeck EXCEPT !.cards = deal(oneDeck.cards, numCards).rest,
                               !.arg = numCards,
                               !.returned = deal(oneDeck.cards, numCards).dealt]

\* deck.draw().
DeckDraw ==
    /\ DeckCall("draw")
    /\ oneDeck' = [oneDeck EXCEPT !.cards = draw(oneDeck.cards).rest,
                               !.arg = 0,
                               !.returned = draw(oneDeck.cards).card]

\* saveRoom with the deck, then getRoom: the deck a later handler receives.
DeckSaveLoad ==
    /\ DeckCall("save-load")
    /\ oneDeck' = [oneDeck EXCEPT
                     !.cards = fromState(safeParse(stringify(oneDeck.cards))),
                     !.arg = 0, !.returned = <<>>]

DeckNext ==
    \/ \E rnd \in DeckSources : DeckShuffle(rnd)
    \/ \E numCards \in DealSizes : DeckDeal(numCards)
    \/ DeckDraw
    \/ DeckSaveLoad

SpecDeck == InitDeck /\ [][DeckNext]_vars

---------------------------------------------------------------------------
(* RummyValidator: the static methods that judge a group of cards and a    *)
(* declared hand.  A group is a list of cards; the wildcard, when one is   *)
(* given, is a card whose rank is wild (<<>> stands for none).             *)

\* RANK_VALUES[rank]: A is 1, the numbers themselves, J, Q, K are 11 to 13.
getCardValue(rank) == CHOOSE v \in 1..Len(RANKS) : RANKS[v] = rank

\* The cards of sorted with card c put after those of its value or less.
insertByValue(sorted, c) ==
    LET k == Cardinality({i \in 1..Len(sorted) :
                 getCardValue(RankOf(sorted[i])) <= getCardValue(RankOf(c))})
    IN SubSeq(sorted, 1, k) \o <<c>> \o SubSeq(sorted, k + 1, Len(sorted))

\* [...cards].sort((a, b) => value(a.rank) - value(b.rank)).
RECURSIVE sortByValue(_)
sortByValue(cards) ==
    IF cards = <<>> THEN <<>>
    ELSE insertByValue(sortByValue(SubSeq(cards, 1, Len(cards) - 1)),
                       cards[Len(cards)])

\* checkConsecutive that lets two cards of one value follow each other.
checkConsecutiveOrEqual(sorted) ==
    \A i \in 1..(Len(sorted) - 1) :
        getCardValue(RankOf(sorted[i + 1])) - getCardValue(RankOf(sorted[i])) <= 1

\* checkConsecutive: each card is one above the card before it.
checkConsecutive(sorted) ==
    \A i \in 1..(Len(sorted) - 1) :
        getCardValue(RankOf(sorted[i + 1])) - getCardValue(RankOf(sorted[i])) = 1

\* isPureSequence.
isPureSequence(cards) ==
    IF Len(cards) < 3 THEN FALSE
    ELSE IF \E k \in 1..Len(cards) :
               SuitOf(cards[k]) # SuitOf(cards[1]) \/ IsJoker(cards[k])
      THEN FALSE
    ELSE checkConsecutive(sortByValue(cards))

\* realCards that keeps the cards of the wildcard's rank.
realCardsKeepWild(cards, wildCard) ==
    SelectSeq(cards, LAMBDA c : ~IsJoker(c))

\* The filter of isSet: the cards that are neither jokers nor, when a
\* wildcard is given, of its rank.
realCards(cards, wildCard) ==
    SelectSeq(cards, LAMBDA c :
        ~IsJoker(c) /\ (wildCard = <<>> \/ RankOf(c) # RankOf(wildCard[1])))

\* isSet: the loop returns false at the first card of another rank, or of
\* a suit already seen.
isSet(cards, wildCard) ==
    IF Len(cards) < 3 \/ Len(cards) > 4 THEN FALSE
    ELSE LET real == realCards(cards, wildCard)
         IN IF Len(real) < 2 THEN TRUE
            ELSE \A k \in 1..Len(real) :
                    /\ RankOf(real[k]) = RankOf(real[1])
                    /\ \A m \in 1..(k - 1) : SuitOf(real[m]) # SuitOf(real[k])

\* isImpureSequence: a placeholder that accepts any three cards or more.
isImpureSequence(cards, wildCard) ==
    IF Len(cards) < 3 THEN FALSE ELSE TRUE

\* validateHand: the loop looks for a pure sequence among the groups, and
\* nothing else is tested; the answer is isValid.
validateHand(groups, wildCard) ==
    LET hasPure == \E k \in 1..Len(groups) : isPureSequence(groups[k])
    IN hasPure

\* The cards groups are made of: ace, 5, 6, 7, queen and king of spades, 6 of
\* hearts, 7 of diamonds, 7 of clubs, the 7 of spades of the second deck,
\* and a printed joker.
GroupCards == {1, 5, 6, 7, 12, 13, 19, 33, 46, 59, 105}

\* The longest group judged.
MaxGroupLen == 4

\* Groups: lists of different cards, and the groups of five made of sevens
\* and the joker.
Groups ==
    UNION {{g \in [1..n -> GroupCards] :
               \A i, k \in 1..n : g[i] = g[k] => i = k} : n \in 0..MaxGroupLen}
    \cup {g \in [1..5 -> {7, 33, 46, 59, 105}] :
               \A i, k \in 1..5 : g[i] = g[k] => i = k}

\* The wildcard: none, or the 6 of hearts (sixes are wild).
WildCards == {<<>>, <<19>>}

\* The groups of a declare.
DeclareGroups == {<<5, 6, 7>>, <<33, 46, 59>>, <<5, 19, 7>>, <<12, 13, 1>>, <<13, 1>>}

\* Declares: one to three of those groups, with the hand they are made from,
\* the hand with one card more, or the hand with one card less.
Declares ==
    {[groups |-> gs, hand |-> h] :
        gs \in UNION {[1..n -> DeclareGroups] : n \in 1..3},
        h \in {{5, 6, 7, 33, 46, 59}, {5, 6, 7, 33, 46, 59, 12}, {5, 6, 7}}}

InitMeld ==
    /\ rooms = <<>>
    /\ socketRoom = <<>>
    /\ queues = [g \in QueueSizes |-> <<>>]
    /\ queueRef = <<>>
    /\ timers = {}
    /\ closed = {}
    /\ nextRoom = 0
    /\ inflight = NoHandlers
    /\ jq = NoHandlers
    /\ last = [op |-> "init", emits |-> <<>>]
    /\ ops = 0
    /\ budget = [ops |-> 1, rooms |-> 0]
    /\ oneDeck = NoDeck
    /\ \/ \E g \in Groups, w \in WildCards :
            judged = [cards |-> g, groups |-> <<>>, hand |-> {}, wildCard |-> w,
                      answer |-> <<>>]
       \/ \E d \in Declares, w \in WildCards :
            judged = [cards |-> <<>>, groups |-> d.groups, hand |-> d.hand,
                      wildCard |-> w, answer |-> <<>>]

\* One call of a method of the validator, on what was handed to it.
Judge(method, answer) ==
    /\ judged # NoCards
    /\ judged.answer = <<>>
    /\ judged' = [judged EXCEPT !.answer = <<answer>>]
    /\ last' = [op |-> method, emits |-> <<>>]
    /\ UNCHANGED <<rooms, socketRoom, queues, queueRef, timers, closed, nextRoom,
                   inflight, jq, ops, budget, oneDeck>>

JudgePure ==
    /\ judged # NoCards /\ judged.groups = <<>>
    /\ Judge("isPureSequence", isPureSequence(judged.cards))

JudgeSet ==
    /\ judged # NoCards /\ judged.groups = <<>>
    /\ Judge("isSet", isSet(judged.cards, judged.wildCard))

JudgeImpure ==
    /\ judged # NoCards /\ judged.groups = <<>>
    /\ Judge("isImpureSequence", isImpureSequence(judged.cards, judged.wildCard))

JudgeHand ==
    /\ judged # NoCards /\ judged.groups # <<>>
    /\ judged.wildCard # <<>>
    /\ Judge("validateHand", validateHand(judged.groups, judged.wildCard))

MeldNext ==
    \/ JudgePure
    \/ JudgeSet
    \/ JudgeImpure
    \/ JudgeHand

SpecMeld == InitMeld /\ [][MeldNext]_vars

---------------------------------------------------------------------------
(* Two handlers of one room whose store accesses interleave.  Every        *)
(* handler awaits getRoom, mutates the room it was given, and awaits       *)
(* saveRoom; the event loop runs other handlers at each await, and nothing *)
(* locks the room in between.                                              *)

\* The sockets whose events interleave: the players of the room and one more.
ConcSockets == {SocketSeq[1], SocketSeq[2], SocketSeq[3]}

\* The hand of socket s in a room (<<>> when it has none).
handIn(room, s) ==
    IF findIndex(room.players, s) # 0
      THEN room.players[findIndex(room.players, s)].hand ELSE <<>>

\* The events sent to a room: the event, its sender and its argument.
Calls(room) ==
    {[op |-> "join-room", sock |-> s, arg |-> 0] : s \in ConcSockets}
    \cup {[op |-> "start-game", sock |-> SocketSeq[1], arg |-> 0]}
    \cup {[op |-> "draw-card", sock |-> s, arg |-> fd] :
             s \in ConcSockets, fd \in BOOLEAN}
    \cup UNION {{[op |-> "discard-card", sock |-> s, arg |-> c] :
                    c \in DiscardChoices(handIn(room, s))} : s \in ConcSockets}
    \cup {[op |-> "debug-win", sock |-> s, arg |-> 0] : s \in ConcSockets}

\* The local mutation of the handler of a call, on the room getRoom returned.
run(call, room) ==
    CASE call.op = "join-room" -> joinRoom(room, call.sock)
      [] call.op = "start-game" -> startGame(room)
      [] call.op = "draw-card" -> drawCard(room, call.sock, call.arg)
      [] call.op = "discard-card" -> discardCard(room, call.sock, call.arg)
      [] call.op = "debug-win" -> debugWin(room, call.sock)

\* The room in the store after the handler of a call has run alone.
after(call, room) == IF run(call, room).save THEN run(call, room).room ELSE room

\* A game of two players in which the first has drawn from the deck.
Drawn(rnd) == drawCard(Started(2, rnd), SocketSeq[1], FALSE).room

\* The rooms on which two handlers meet.
ConcRooms ==
    {Lobby(6, 1, rnd) : rnd \in RandomSources}
    \cup {Started(2, rnd) : rnd \in RandomSources}
    \cup {Drawn(rnd) : rnd \in RandomSources}

\* A handler that has not reached its getRoom.
handler(call) == [call |-> call, pc |-> "start", local |-> <<>>]

InitConc ==
    \E room \in ConcRooms :
        \E c1 \in Calls(room), c2 \in Calls(room) :
            /\ rooms = (room.id :> room)
            /\ socketRoom = [s \in {room.players[i].id : i \in 1..Len(room.players)}
                               |-> room.id]
            /\ queues = [g \in QueueSizes |-> <<>>]
            /\ queueRef = <<>>
            /\ timers = {}
            /\ closed = {}
            /\ nextRoom = 1
            /\ inflight = [roomId |-> room.id, base |-> room,
                           handlers |-> <<handler(c1), handler(c2)>>]
            /\ jq = NoHandlers
            /\ last = [op |-> "init", emits |-> <<>>]
            /\ ops = 0
            /\ budget = [ops |-> 0, rooms |-> 1]
            /\ oneDeck = NoDeck
            /\ judged = NoCards

\* await this.getRoom(roomId): handler k receives the room as stored now.
Load(k) ==
    /\ inflight # NoHandlers
    /\ inflight.handlers[k].pc = "start"
    /\ inflight.roomId \in DOMAIN rooms
    /\ inflight' = [inflight EXCEPT !.handlers[k].pc = "loaded",
                                    !.handlers[k].local = rooms[inflight.roomId]]
    /\ last' = [op |-> "getRoom", emits |-> <<>>]
    /\ UNCHANGED <<rooms, socketRoom, queues, queueRef, timers, closed, nextRoom,
                   jq, ops, budget, oneDeck, judged>>

\* The rest of handler k: it mutates the room it received and, unless it
\* returned early, saveRoom writes that room over the stored one.
Save(k) ==
    /\ inflight # NoHandlers
    /\ inflight.handlers[k].pc = "loaded"
    /\ LET h == inflight.handlers[k]
           res == run(h.call, h.local)
       IN /\ rooms' = IF res.save THEN Put(rooms, inflight.roomId, res.room) ELSE rooms
          /\ socketRoom' =
               IF h.call.op = "join-room"
                  /\ (res.save \/ findIndex(h.local.players, h.call.sock) # 0)
                 THEN Put(socketRoom, h.call.sock, inflight.roomId) ELSE socketRoom
          /\ timers' = IF h.call.op = "debug-win" /\ res.save
                         THEN timers \cup {inflight.roomId} ELSE timers
          /\ last' = [op |-> h.call.op, emits |-> res.emits]
    /\ inflight' = [inflight EXCEPT !.handlers[k].pc = "done"]
    /\ UNCHANGED <<queues, queueRef, closed, nextRoom, jq, ops, budget, oneDeck, judged>>

NextConc ==
    \/ \E k \in {1, 2} : Load(k)
    \/ \E k \in {1, 2} : Save(k)

SpecConc == InitConc /\ [][NextConc]_vars

\* The same, the first handler being that of debug-win: its setTimeout
\* callback runs as one more step, whenever the event loop gets to it.
InitWin ==
    \E room \in ConcRooms :
        \E s \in ConcSockets, c2 \in Calls(room) :
            /\ rooms = (room.id :> room)
            /\ socketRoom = [p \in {room.players[i].id : i \in 1..Len(room.players)}
                               |-> room.id]
            /\ queues = [g \in QueueSizes |-> <<>>]
            /\ queueRef = <<>>
            /\ timers = {}
            /\ closed = {}
            /\ nextRoom = 1
            /\ inflight = [roomId |-> room.id, base |-> room,
                           handlers |-> <<handler([op |-> "debug-win", sock |-> s,
                                                   arg |-> 0]),
                                          handler(c2)>>]
            /\ jq = NoHandlers
            /\ last = [op |-> "init", emits |-> <<>>]
            /\ ops = 0
            /\ budget = [ops |-> 2, rooms |-> 1]
            /\ oneDeck = NoDeck
            /\ judged = NoCards

NextWin ==
    \/ \E k \in {1, 2} : Load(k)
    \/ \E k \in {1, 2} : Save(k)
    \/ \E r \in RoomIds : TimerFire(r)

\* Every handler that has started runs to its end, and every timer fires.
SpecWin == InitWin /\ [][NextWin]_vars /\ WF_vars(NextWin)


---------------------------------------------------------------------------
(* joinQueue handlers that interleave at their awaits: redis.rpush (with   *)
(* the queue_ref record), redis.llen, redis.lpop.                          *)

\* The sockets that call joinQueue: two games of four.
QueuePlayers == {SocketSeq[k] : k \in 1..8}

InitQueue ==
    /\ rooms = <<>>
    /\ socketRoom = <<>>
    /\ queues = (4 :> <<>>)
    /\ queueRef = <<>>
    /\ timers = {}
    /\ closed = {}
    /\ nextRoom = 0
    /\ inflight = NoHandlers
    /\ jq = [s \in QueuePlayers |-> [pc |-> "start", gameSize |-> 4]]
    /\ last = [op |-> "init", emits |-> <<>>]
    /\ ops = 0
    /\ budget = [ops |-> 0, rooms |-> Len(RoomSeq)]
    /\ oneDeck = NoDeck
    /\ judged = NoCards

\* await redis.rpush(queueKey, playerInfo) and await redis.set(queue_ref).
\* The sockets call in the order of their names.
QueueAppend(s) ==
    /\ jq # NoHandlers
    /\ jq[s].pc = "start"
    /\ \A k \in 1..Len(SocketSeq) :
          SocketSeq[k] = s => \A m \in 1..(k - 1) : jq[SocketSeq[m]].pc # "start"
    /\ queues' = [queues EXCEPT ![jq[s].gameSize] = Append(@, playerInfo(s))]
    /\ queueRef' = Put(queueRef, s, [gameSize |-> jq[s].gameSize,
                                     playerInfo |-> playerInfo(s)])
    /\ jq' = [jq EXCEPT ![s].pc = "pushed"]
    /\ last' = [op |-> "rpush", emits |-> <<>>]
    /\ UNCHANGED <<rooms, socketRoom, timers, closed, nextRoom, inflight, ops, budget, oneDeck, judged>>

\* await redis.llen(queueKey), and the branch on len >= gameSize.
QueueLen(s) ==
    /\ jq # NoHandlers
    /\ jq[s].pc = "pushed"
    /\ IF Len(queues[jq[s].gameSize]) >= jq[s].gameSize
         THEN /\ jq' = [jq EXCEPT ![s].pc = "pop"]
              /\ last' = [op |-> "llen", emits |-> <<>>]
         ELSE /\ jq' = [jq EXCEPT ![s].pc = "done"]
              /\ last' = [op |-> "llen", emits |-> <<Emit("queue-joined", s)>>]
    /\ UNCHANGED <<rooms, socketRoom, queues, queueRef, timers, closed, nextRoom,
                   inflight, ops, budget, oneDeck, judged>>

\* await redis.lpop(queueKey, gameSize) and what follows it: when gameSize
\* entries came back their queue_ref records are deleted, a room is created
\* and each connected player joins it; otherwise the handler returns and the
\* entries it popped are in no list any more.
QueuePop(s, rnd) ==
    /\ jq # NoHandlers
    /\ jq[s].pc = "pop"
    /\ LET g == jq[s].gameSize
           q == queues[g]
           playersRaw == SubSeq(q, 1, Min(g, Len(q)))
       IN /\ queues' = [queues EXCEPT ![g] = SubSeq(q, Len(playersRaw) + 1, Len(q))]
          /\ IF Len(playersRaw) = g
               THEN /\ queueRef' = [p \in DOMAIN queueRef \ Range(playersRaw) |->
                                      queueRef[p]]
                    /\ Match(playersRaw, g, rnd)
                    /\ last' = [op |-> "lpop",
                                emits |-> <<Broadcast("player-joined",
                                                      rooms'[RoomSeq[nextRoom + 1]])>>]
               ELSE /\ last' = [op |-> "lpop", emits |-> <<>>]
                    /\ UNCHANGED <<rooms, socketRoom, queueRef, nextRoom>>
    /\ jq' = [jq EXCEPT ![s].pc = "done"]
    /\ UNCHANGED <<timers, closed, inflight, ops, budget, oneDeck, judged>>

NextQueue ==
    \/ \E s \in QueuePlayers : QueueAppend(s)
    \/ \E s \in QueuePlayers : QueueLen(s)
    \/ \E s \in QueuePlayers, rnd \in RandomSources : QueuePop(s, rnd)

SpecQueue == InitQueue /\ [][NextQueue]_vars


---------------------------------------------------------------------------
(* The claims.                                                             *)

\* The roster indices whose isMyTurn is set.
TurnHolders(room) == {i \in 1..Len(room.players) : room.players[i].isMyTurn}

\* C1: in every persisted room with status playing, at most one player of the
\* roster has isMyTurn set.
C1_AtMostOneTurnHolder ==
    \A r \in DOMAIN rooms :
        rooms[r].status = "playing" => Cardinality(TurnHolders(rooms[r])) <= 1

\* C2: handlers of one room are serialized: once two handlers of a room have
\* both finished, whatever the interleaving of their getRoom and saveRoom, the
\* stored room is the one that running them one after the other, in one of
\* the two orders, leaves.
C2_HandlersSerialized ==
    (/\ inflight # NoHandlers
     /\ \A k \in {1, 2} : inflight.handlers[k].pc = "done")
    => LET c1 == inflight.handlers[1].call
           c2 == inflight.handlers[2].call
       IN rooms[inflight.roomId] \in {after(c2, after(c1, inflight.base)),
                                      after(c1, after(c2, inflight.base))}

\* The socket ids on the roster of a stored room.
Roster(r) == {rooms[r].players[i].id : i \in 1..Len(rooms[r].players)}

\* C3: once the joinQueue handlers of 8 players asking for games of 4 have all
\* finished, however they interleaved, there are exactly two rooms, each of 4
\* players, no player in both, every player in one, and the list is empty.
C3_TwoSessionsOfFour ==
    (/\ jq # NoHandlers
     /\ \A s \in DOMAIN jq : jq[s].pc = "done")
    => /\ Cardinality(DOMAIN rooms) = 2
       /\ \A r \in DOMAIN rooms : Len(rooms[r].players) = 4
       /\ \A r1, r2 \in DOMAIN rooms : r1 # r2 => Roster(r1) \cap Roster(r2) = {}
       /\ UNION {Roster(r) : r \in DOMAIN rooms} = DOMAIN jq
       /\ queues[4] = <<>>

StatusRank(status) ==
    CASE status = "waiting" -> 0
      [] status = "playing" -> 1
      [] status = "ended"   -> 2

\* C4: the status of a persisted room never moves backwards along
\* waiting, playing, ended; in particular no handler changes the status of a
\* room that is ended.
C4_StatusMovesForward ==
    [][\A r \in (DOMAIN rooms) \cap (DOMAIN rooms') :
          StatusRank(rooms'[r].status) >= StatusRank(rooms[r].status)]_vars

\* C5: start-game on a room with fewer than 2 players, or whose status is not
\* waiting, leaves the persisted room (hands, deck, discard pile, turn flags,
\* status) as it was.
C5_StartOnlyFromLobby ==
    [][\A r \in DOMAIN rooms :
          (/\ ~(Len(rooms[r].players) >= 2 /\ rooms[r].status = "waiting")
           /\ last'.op = "start-game"
           /\ OnStartGame(r))
          => rooms'[r] = rooms[r]]_vars

\* C6: start-game on a waiting room of n players, 2 <= n <= 6, with the fresh
\* deck of 106 cards gives player i exactly the 13 cards at deck positions
\* 13(i-1)+1 .. 13i, puts exactly the next card on the discard pile, leaves
\* the other 106 - 13n - 1 cards in the deck in order, sets status playing, and
\* gives the turn to the first player alone, who is currentTurnPlayerId.
C6_StartDeals ==
    [][\A r \in DOMAIN rooms :
          LET pre == rooms[r]
              n == Len(pre.players)
          IN (/\ pre.status = "waiting"
              /\ n >= 2 /\ n <= 6
              /\ Len(pre.deck) = 106
              /\ last'.op = "start-game"
              /\ OnStartGame(r))
             => LET post == rooms'[r]
                IN /\ Len(post.players) = n
                   /\ \A i \in 1..n :
                        /\ post.players[i].id = pre.players[i].id
                        /\ Len(post.players[i].hand) = 13
                        /\ Range(post.players[i].hand)
                             = {pre.deck[k] : k \in (13 * (i - 1) + 1)..(13 * i)}
                        /\ post.players[i].isMyTurn = (i = 1)
                   /\ post.discardPile = <<pre.deck[13 * n + 1]>>
                   /\ post.deck = SubSeq(pre.deck, 13 * n + 2, 106)
                   /\ Len(post.deck) = 106 - 13 * n - 1
                   /\ post.status = "playing"
                   /\ post.currentTurnPlayerId = pre.players[1].id]_vars

\* A lobby of six has just been started.
C6_Witness ==
    \E r \in DOMAIN rooms :
        /\ last.op = "start-game" /\ last.emits # <<>>
        /\ ops = 1
        /\ Len(rooms[r].players) = 6
        /\ rooms[r].status = "playing"
        /\ Len(rooms[r].discardPile) = 1

\* C7: in every persisted room, gameState.deckCount is the number of cards of
\* the persisted deck snapshot.
C7_DeckCountIsDeckLength ==
    \A r \in DOMAIN rooms : rooms[r].deckCount = Len(rooms[r].deck)

\* A card has just been drawn from the deck of a started game.
C7_Witness ==
    \E r \in DOMAIN rooms :
        /\ last.op = "draw-card" /\ last.emits # <<>>
        /\ rooms[r].status = "playing"
        /\ Len(rooms[r].discardPile) = 1
        /\ Len(rooms[r].deck) = 106 - 13 * Len(rooms[r].players) - 2

\* C8: draw-card changes the persisted room only if the acting player has
\* isMyTurn set and holds exactly 13 cards.
C8_DrawNeedsTurnAndThirteen ==
    [][\A s \in Sockets, r \in DOMAIN rooms, fd \in BOOLEAN :
          (/\ last'.op = "draw-card"
           /\ r \in DOMAIN rooms'
           /\ rooms'[r] # rooms[r]
           /\ OnDrawCard(s, r, fd))
          => LET i == findIndex(rooms[r].players, s)
             IN /\ i # 0
                /\ rooms[r].players[i].isMyTurn
                /\ Len(rooms[r].players[i].hand) = 13]_vars

\* C9: a draw-card that changes the room moves exactly one card, the last of
\* the discard pile with fromDiscard and the front of the deck without, to the
\* end of the acting player's hand; the other pile, the other players, every
\* turn flag, currentTurnPlayerId and status stay as they were.
C9_DrawMovesOneCard ==
    [][\A s \in Sockets, r \in DOMAIN rooms, fd \in BOOLEAN :
          (/\ last'.op = "draw-card"
           /\ r \in DOMAIN rooms'
           /\ rooms'[r] # rooms[r]
           /\ OnDrawCard(s, r, fd))
          => LET pre == rooms[r]
                 post == rooms'[r]
                 i == findIndex(pre.players, s)
             IN /\ i # 0
                /\ IF fd
                     THEN /\ pre.discardPile # <<>>
                          /\ post.discardPile
                               = SubSeq(pre.discardPile, 1, Len(pre.discardPile) - 1)
                          /\ post.players[i].hand
                               = Append(pre.players[i].hand,
                                        pre.discardPile[Len(pre.discardPile)])
                          /\ post.deck = pre.deck
                     ELSE /\ pre.deck # <<>>
                          /\ post.deck = Tail(pre.deck)
                          /\ post.players[i].hand
                               = Append(pre.players[i].hand, Head(pre.deck))
                          /\ post.discardPile = pre.discardPile
                /\ Len(post.players) = Len(pre.players)
                /\ \A k \in 1..Len(pre.players) :
                     /\ post.players[k].id = pre.players[k].id
                     /\ post.players[k].isMyTurn = pre.players[k].isMyTurn
                     /\ k # i => post.players[k].hand = pre.players[k].hand
                /\ post.currentTurnPlayerId = pre.currentTurnPlayerId
                /\ post.status = pre.status]_vars

\* The turn-holder has just drawn the only card of the discard pile and holds
\* 14 cards.
C9_Witness ==
    \E r \in DOMAIN rooms :
        /\ last.op = "draw-card" /\ last.emits # <<>>
        /\ rooms[r].discardPile = <<>>
        /\ \E i \in 1..Len(rooms[r].players) :
             /\ rooms[r].players[i].isMyTurn
             /\ Len(rooms[r].players[i].hand) = 14

\* C10: when the turn-holder, holding 13 cards, draws from the deck and the
\* deck is empty, the persisted room is left as it was and an error event is
\* emitted to the acting socket, whatever the discard pile holds.
C10_EmptyDeckIsReported ==
    [][\A s \in Sockets, r \in DOMAIN rooms :
          LET i == findIndex(rooms[r].players, s)
          IN (/\ i # 0
              /\ rooms[r].players[i].isMyTurn
              /\ Len(rooms[r].players[i].hand) = 13
              /\ rooms[r].deck = <<>>
              /\ last'.op = "draw-card"
              /\ OnDrawCard(s, r, FALSE))
             => /\ rooms' = rooms
                /\ \E k \in 1..Len(last'.emits) :
                     /\ last'.emits[k].ev = "error"
                     /\ last'.emits[k].to = s]_vars

\* C11: a discard that changes the room clears isMyTurn of the discarding
\* player at roster index i, sets isMyTurn of the player at the next index,
\* the first after the last, and makes that player currentTurnPlayerId; when
\* the discarding player alone held the turn, the next player alone holds it.
C11_DiscardPassesTurn ==
    [][\A s \in Sockets, r \in DOMAIN rooms :
          \A c \in DiscardChoices(HandOf(s, r)) :
             (/\ last'.op = "discard-card"
              /\ r \in DOMAIN rooms'
              /\ rooms'[r] # rooms[r]
              /\ OnDiscardCard(s, r, c))
             => LET pre == rooms[r]
                    post == rooms'[r]
                    n == Len(pre.players)
                    i == findIndex(pre.players, s)
                    next == IF i = n THEN 1 ELSE i + 1
                IN /\ i # 0
                   /\ Len(post.players) = n
                   /\ \A k \in 1..n : post.players[k].id = pre.players[k].id
                   /\ ~post.players[i].isMyTurn
                   /\ post.players[next].isMyTurn
                   /\ post.currentTurnPlayerId = pre.players[next].id
                   /\ TurnHolders(pre) = {i} => TurnHolders(post) = {next}]_vars

\* In a game of four the fourth player has just discarded and the turn is
\* back with the first, after it went round once.
C11_Witness ==
    \E r \in DOMAIN rooms :
        /\ last.op = "discard-card" /\ last.emits # <<>>
        /\ ops = 8
        /\ Len(rooms[r].players) = 4
        /\ TurnHolders(rooms[r]) = {1}
        /\ rooms[r].currentTurnPlayerId = rooms[r].players[1].id

\* C12: discard-card leaves the persisted room as it was unless the sender
\* is on the roster with isMyTurn set, holds exactly 14 cards and holds the
\* card named; when it changes the room, the card named, and no other,
\* leaves the hand and is pushed on the discard pile, and the deck and the
\* other hands stay as they were.
C12_DiscardNeedsTurnFourteenAndCard ==
    [][\A s \in Sockets, r \in DOMAIN rooms :
          \A c \in DiscardChoices(HandOf(s, r)) :
             (/\ last'.op = "discard-card"
              /\ OnDiscardCard(s, r, c))
             => LET pre == rooms[r]
                    i == findIndex(pre.players, s)
                    allowed == /\ i # 0
                               /\ pre.players[i].isMyTurn
                               /\ Len(pre.players[i].hand) = 14
                               /\ c \in Range(pre.players[i].hand)
                IN IF ~allowed THEN rooms' = rooms
                   ELSE LET post == rooms'[r]
                            hand == pre.players[i].hand
                        IN /\ post.discardPile = Append(pre.discardPile, c)
                           /\ Len(post.players[i].hand) = 13
                           /\ \E k \in 1..14 :
                                 /\ hand[k] = c
                                 /\ post.players[i].hand = RemoveAt(hand, k)
                           /\ post.deck = pre.deck
                           /\ \A k \in 1..Len(pre.players) :
                                 k # i => post.players[k].hand = pre.players[k].hand]_vars

\* The first player of a game of four has drawn and has just discarded.
C12_Witness ==
    \E r \in DOMAIN rooms :
        /\ last.op = "discard-card" /\ last.emits # <<>>
        /\ ops = 2
        /\ Len(rooms[r].discardPile) >= 1
        /\ Len(rooms[r].players[1].hand) = 13
        /\ ~rooms[r].players[1].isMyTurn

\* The number of positions of a sequence that hold e.
Occurrences(seq, e) == Cardinality({k \in 1..Len(seq) : seq[k] = e})

\* order holds the ids of hand, each as often as hand does.
IsPermutation(order, hand) ==
    /\ Len(order) = Len(hand)
    /\ \A e \in Range(order) \cup Range(hand) :
          Occurrences(order, e) = Occurrences(hand, e)

\* C13: rearrange-hand leaves the persisted room as it was unless the order
\* sent is a permutation of the sender's hand; an order of the right length
\* that repeats one id of the hand is refused.
C13_RearrangeNeedsPermutation ==
    [][\A s \in Sockets, r \in DOMAIN rooms :
          \A o \in RearrangeChoices(HandOf(s, r)) :
             (/\ last'.op = "rearrange-hand"
              /\ ~IsPermutation(o, HandOf(s, r))
              /\ OnRearrangeHand(s, r, o))
             => rooms' = rooms]_vars

\* The hands of the first n players of a room, one after the other.
RECURSIVE handsOf(_, _)
handsOf(room, n) ==
    IF n = 0 THEN <<>> ELSE handsOf(room, n - 1) \o room.players[n].hand

\* Every card a room holds: deck, discard pile and hands.
cardsOf(room) == room.deck \o room.discardPile \o handsOf(room, Len(room.players))

\* C14: in every persisted room no card id occurs twice among the deck, the
\* discard pile and the hands.
C14_CardsAreUnique ==
    \A r \in DOMAIN rooms :
        Cardinality(Range(cardsOf(rooms[r]))) = Len(cardsOf(rooms[r]))

\* The events of the last handler include an error sent to socket s alone.
ErrorTo(s) ==
    \E k \in 1..Len(last.emits) :
        last.emits[k].ev = "error" /\ last.emits[k].to = s

\* C15: join-room by a socket that is not on the roster appends it, with an
\* empty hand and no turn, when the room exists, is waiting and has fewer than
\* maxPlayers players, and changes nothing else of the room; otherwise the
\* persisted rooms stay as they were and an error goes to the sender alone.
\* No roster is ever longer than maxPlayers, and the roster of a room that is
\* not waiting never gets longer.
C15_JoinAddsOnlyToOpenLobby ==
    /\ [][/\ \A s \in Sockets, r \in RoomIds :
               (/\ last'.op = "join-room"
                /\ r \notin DOMAIN rooms \/ findIndex(rooms[r].players, s) = 0
                /\ OnJoinRoom(s, r))
               => IF /\ r \in DOMAIN rooms
                     /\ rooms[r].status = "waiting"
                     /\ Len(rooms[r].players) < rooms[r].maxPlayers
                    THEN LET joined == Append(rooms[r].players,
                                              [id |-> s, hand |-> <<>>,
                                               isMyTurn |-> FALSE])
                         IN rooms' = [rooms EXCEPT ![r] =
                                        [@ EXCEPT !.players = joined,
                                                  !.gsPlayers = joined]]
                    ELSE rooms' = rooms /\ ErrorTo(s)'
          /\ \A r \in (DOMAIN rooms) \cap (DOMAIN rooms') :
               rooms[r].status # "waiting"
               => Len(rooms'[r].players) <= Len(rooms[r].players)]_vars
    /\ [](\A r \in DOMAIN rooms : Len(rooms[r].players) <= rooms[r].maxPlayers)

\* A third socket has just been refused by a waiting room of two that is full.
C15_Witness ==
    \E r \in DOMAIN rooms, s \in Sockets :
        /\ last = [op |-> "join-room", emits |-> <<Error("Room is full", s)>>]
        /\ rooms[r].status = "waiting"
        /\ Len(rooms[r].players) = 2
        /\ rooms[r].maxPlayers = 2
        /\ findIndex(rooms[r].players, s) = 0

\* C16: join-room by a socket that is on the roster leaves every persisted
\* room as it was, whatever the status, records the room under the socket's
\* socket:<id> key and emits the state to that socket alone.
C16_RejoinIsIdempotent ==
    [][\A s \in Sockets, r \in DOMAIN rooms :
          (/\ last'.op = "join-room"
           /\ findIndex(rooms[r].players, s) # 0
           /\ OnJoinRoom(s, r))
          => /\ rooms' = rooms
             /\ s \in DOMAIN socketRoom' /\ socketRoom'[s] = r
             /\ \A p \in DOMAIN socketRoom : p # s => socketRoom'[p] = socketRoom[p]
             /\ last'.emits = <<Emit("player-joined", s)>>]_vars

\* A player of a started game has just sent join-room for it again.
C16_Witness ==
    \E r \in DOMAIN rooms, s \in Sockets :
        /\ last = [op |-> "join-room", emits |-> <<Emit("player-joined", s)>>]
        /\ rooms[r].status = "playing"
        /\ findIndex(rooms[r].players, s) # 0
        /\ s \in DOMAIN socketRoom /\ socketRoom[s] = r

\* C17: a joinQueue handler that shortens the list of game size g takes
\* exactly g entries from it, the g at its head.
C17_PopsWholeBatches ==
    [][\A g \in DOMAIN queues :
          (last'.op = "lpop" /\ queues'[g] # queues[g])
          => /\ Len(queues[g]) >= g
             /\ queues'[g] = SubSeq(queues[g], g + 1, Len(queues[g]))]_vars

\* C18: after the disconnect handler of a socket no list holds an entry of
\* that socket and its queue_ref record is gone, whichever joinQueue calls it
\* made; the entries of the other sockets keep their places, and a socket
\* with no entry leaves every list as it was.
C18_DisconnectLeavesNoEntry ==
    [][\A s \in Sockets :
          (last'.op = "disconnect" /\ s \in closed' \ closed)
          => /\ \A g \in DOMAIN queues :
                  queues'[g] = lrem(queues[g], playerInfo(s))
             /\ s \notin DOMAIN queueRef'
             /\ \A p \in DOMAIN queueRef : p # s =>
                  p \in DOMAIN queueRef' /\ queueRef'[p] = queueRef[p]]_vars

\* The first position of e in a sequence that holds it.
firstAt(seq, e) == CHOOSE k \in 1..Len(seq) :
                      seq[k] = e /\ \A m \in 1..(k - 1) : seq[m] # e

\* C19: the room a join-queue handler creates for game size g has
\* maxPlayers g and status waiting; its roster holds the sockets of the g
\* entries at the head of the list that are still connected, each once, in
\* the order of their entries, and nobody else.
C19_MatchedRoomHoldsTheBatch ==
    [][\A s \in Sockets, g \in DOMAIN queues, rnd \in RandomSources :
          \A r \in (DOMAIN rooms') \ (DOMAIN rooms) :
             (last'.op = "join-queue" /\ OnJoinQueue(s, g, rnd))
             => LET batch == SubSeq(Append(queues[g], playerInfo(s)), 1, g)
                    roster == rooms'[r].players
                IN /\ rooms'[r].maxPlayers = g
                   /\ rooms'[r].status = "waiting"
                   /\ {roster[k].id : k \in 1..Len(roster)} = Range(batch) \ closed
                   /\ \A a, b \in 1..Len(roster) :
                        a < b => firstAt(batch, roster[a].id)
                                   < firstAt(batch, roster[b].id)
                   /\ \A k \in 1..Len(roster) :
                        roster[k].hand = <<>> /\ ~roster[k].isMyTurn]_vars

\* A match has just made a room for two from a batch one of whose sockets had
\* disconnected: the room holds the other alone.
C19_Witness ==
    \E r \in DOMAIN rooms :
        /\ last.op = "join-queue"
        /\ ops = 4
        /\ rooms[r].maxPlayers = 2
        /\ rooms[r].status = "waiting"
        /\ Len(rooms[r].players) = 1
        /\ closed # {}
        /\ rooms[r].players[1].id \notin closed

\* C20: when a player of a playing room with two players disconnects, the
\* persisted room has status ended and the other player as winner once the
\* disconnect handler is done, whether the game began with two players or came
\* down to two by an earlier disconnect.
C20_LastOpponentWins ==
    [][\A s \in Sockets, r \in DOMAIN rooms :
          (/\ last'.op = "disconnect"
           /\ s \in closed' \ closed
           /\ s \in DOMAIN socketRoom /\ socketRoom[s] = r
           /\ rooms[r].status = "playing"
           /\ Len(rooms[r].players) = 2
           /\ findIndex(rooms[r].players, s) # 0)
          => /\ r \in DOMAIN rooms'
             /\ rooms'[r].status = "ended"
             /\ rooms'[r].winner
                  = rooms[r].players[3 - findIndex(rooms[r].players, s)].id]_vars

\* C21: when a player with isMyTurn set, at roster index i of a playing room
\* of more than two players, disconnects, the persisted roster is the old one
\* without that player, and the player now at index i (the first, if the one
\* removed was last) alone has isMyTurn set and is currentTurnPlayerId.
C21_LeavingTurnHolderPassesTurn ==
    [][\A s \in Sockets, r \in DOMAIN rooms :
          LET pre == rooms[r]
              i == findIndex(pre.players, s)
          IN (/\ last'.op = "disconnect"
              /\ s \in closed' \ closed
              /\ s \in DOMAIN socketRoom /\ socketRoom[s] = r
              /\ pre.status = "playing"
              /\ Len(pre.players) > 2
              /\ i # 0
              /\ pre.players[i].isMyTurn)
             => LET post == rooms'[r]
                    next == IF i = Len(pre.players) THEN 1 ELSE i
                IN /\ Len(post.players) = Len(pre.players) - 1
                   /\ \A k \in 1..Len(post.players) :
                        post.players[k].id
                          = pre.players[IF k < i THEN k ELSE k + 1].id
                   /\ TurnHolders(post) = {next}
                   /\ post.currentTurnPlayerId = post.players[next].id]_vars

\* C22: when a socket on the roster of a waiting room disconnects, the
\* persisted roster is the old one without that player, the others in their
\* order; status, deck and discard pile are as before; and the socket's
\* socket->room record is deleted.
C22_LeavingLobbyRemovesOnlyThePlayer ==
    [][\A s \in Sockets, r \in DOMAIN rooms :
          LET pre == rooms[r]
              i == findIndex(pre.players, s)
          IN (/\ last'.op = "disconnect"
              /\ s \in closed' \ closed
              /\ s \in DOMAIN socketRoom /\ socketRoom[s] = r
              /\ pre.status = "waiting"
              /\ i # 0)
             => /\ r \in DOMAIN rooms'
                /\ rooms'[r].players
                     = [k \in 1..(Len(pre.players) - 1) |->
                           pre.players[IF k < i THEN k ELSE k + 1]]
                /\ rooms'[r].status = pre.status
                /\ rooms'[r].deck = pre.deck
                /\ rooms'[r].discardPile = pre.discardPile
                /\ s \notin DOMAIN socketRoom']_vars

\* A lobby of three or more that a player other than the last has just left.
C22_Witness ==
    /\ last.op = "disconnect"
    /\ \E r \in DOMAIN rooms :
         /\ rooms[r].status = "waiting"
         /\ Len(rooms[r].players) >= 2
         /\ \E s \in closed :
              /\ findIndex(rooms[r].players, s) = 0
              /\ s \notin DOMAIN socketRoom
              /\ s = SocketSeq[1]
         /\ rooms[r].players[1].id = SocketSeq[2]

\* Handler k has declared a win: debugWin found its socket on the roster,
\* saved the room and scheduled the deletion.
Declared(k) ==
    /\ inflight # NoHandlers
    /\ inflight.handlers[k].pc = "done"
    /\ inflight.handlers[k].call.op = "debug-win"
    /\ findIndex(inflight.handlers[k].local.players,
                 inflight.handlers[k].call.sock) # 0

ids(players) == [k \in 1..Len(players) |-> players[k].id]

\* C24: when a handler has completed, each event it sent to the room agrees
\* with the room then persisted: a broadcast gameState has the persisted
\* status, winner, roster (ids, in order) and currentTurnPlayerId, and
\* game-ended has the persisted winner, of a room persisted as ended.
C24_BroadcastIsPersisted ==
    \A k \in 1..Len(last.emits) :
        LET e == last.emits[k]
        IN e.to = "room"
           => /\ e.room \in DOMAIN rooms
              /\ IF e.ev = "game-ended"
                   THEN /\ rooms[e.room].status = "ended"
                        /\ rooms[e.room].winner = e.winnerId
                   ELSE /\ rooms[e.room].status = e.gameState.status
                        /\ rooms[e.room].winner = e.gameState.winner
                        /\ ids(rooms[e.room].players) = e.gameState.players
                        /\ rooms[e.room].currentTurnPlayerId
                             = e.gameState.currentTurnPlayerId

\* C25: in every persisted room with status playing, currentTurnPlayerId is
\* the id of a player of the roster, and that player has isMyTurn set.
C25_PlayingRoomHasTurnHolder ==
    \A r \in DOMAIN rooms :
        rooms[r].status = "playing"
        => \E i \in 1..Len(rooms[r].players) :
              /\ rooms[r].players[i].id = rooms[r].currentTurnPlayerId
              /\ rooms[r].players[i].isMyTurn

\* A game just started (nothing but the open card on the pile) which the
\* first player, whose turn it was, has left: the turn is with the second.
C25_Witness ==
    /\ last.op = "disconnect"
    /\ ops = 1
    /\ SocketSeq[1] \in closed
    /\ \E r \in DOMAIN rooms :
         /\ rooms[r].status = "playing"
         /\ Len(rooms[r].discardPile) = 1
         /\ findIndex(rooms[r].players, SocketSeq[1]) = 0
         /\ rooms[r].players[1].id = SocketSeq[2]
         /\ rooms[r].players[1].isMyTurn
         /\ rooms[r].currentTurnPlayerId = SocketSeq[2]

\* C26: a rearrange-hand event, whatever order it sends and whether or not it
\* is accepted, leaves the deck, the discard pile, status, winner and
\* currentTurnPlayerId of every room as they were, and the roster with every
\* player's isMyTurn; no hand but the sender's changes.
C26_RearrangeTouchesOneHand ==
    [][last'.op = "rearrange-hand"
       => /\ DOMAIN rooms' = DOMAIN rooms
          /\ \A r \in DOMAIN rooms :
               LET pre == rooms[r]
                   post == rooms'[r]
               IN /\ post.deck = pre.deck
                  /\ post.deckCount = pre.deckCount
                  /\ post.discardPile = pre.discardPile
                  /\ post.status = pre.status
                  /\ post.winner = pre.winner
                  /\ post.currentTurnPlayerId = pre.currentTurnPlayerId
                  /\ ids(post.players) = ids(pre.players)
                  /\ \A k \in 1..Len(pre.players) :
                       post.players[k].isMyTurn = pre.players[k].isMyTurn
                  /\ \A s \in Sockets :
                       (\E o \in RearrangeChoices(HandOf(s, r)) :
                           OnRearrangeHand(s, r, o))
                       => \A k \in 1..Len(pre.players) :
                             pre.players[k].id # s
                             => post.players[k].hand = pre.players[k].hand]_vars

\* An order was accepted in a game in progress: the second player holds a
\* hand that is no longer in the order of the deal.
C26_Witness ==
    /\ last.op = "rearrange-hand"
    /\ last.emits # <<>>
    /\ \E r \in DOMAIN rooms :
         /\ rooms[r].status = "playing"
         /\ Len(rooms[r].players) >= 2
         /\ rooms[r].players[2].hand # sortBySuit(rooms[r].players[2].hand)
         /\ rooms[r].players[1].hand = sortBySuit(rooms[r].players[1].hand)

\* C27: a create-room step leaves every room that was persisted before it as
\* it was, and persists one more record: status waiting, an empty discard
\* pile, deckCount the size of the full deck, and on the roster nobody but
\* the creator, whom the handler joins to the room it created.
C27_CreateKeepsOtherRooms ==
    [][last'.op = "create-room"
       => /\ \A r \in DOMAIN rooms :
               r \in DOMAIN rooms' /\ rooms'[r] = rooms[r]
          /\ \E r \in (DOMAIN rooms') \ (DOMAIN rooms) :
               /\ rooms'[r].status = "waiting"
               /\ rooms'[r].discardPile = <<>>
               /\ rooms'[r].deckCount = 52 * NumDecks + NumJokers
               /\ Len(rooms'[r].deck) = 52 * NumDecks + NumJokers
               /\ Len(rooms'[r].players) = 1
               /\ rooms'[r].players[1].hand = <<>>
               /\ ~rooms'[r].players[1].isMyTurn]_vars

\* C28: an entry whose queue_ref record is gone counts as absent.  When a
\* join-queue handler makes a match for game size g, every entry it takes
\* from the list (the first g of the entries waiting and the caller's own)
\* still had its queue_ref record, so that g entries with a record were there.
C28_ExpiredEntryIsAbsent ==
    [][\A g \in DOMAIN queues :
          (/\ last'.op = "join-queue"
           /\ \E r \in (DOMAIN rooms') \ (DOMAIN rooms) : rooms'[r].maxPlayers = g)
          => /\ \A k \in 1..Min(g, Len(queues[g])) :
                  queues[g][k] \in DOMAIN queueRef
             /\ Cardinality({k \in 1..Len(queues[g]) :
                                queues[g][k] \in DOMAIN queueRef}) + 1 >= g]_vars

\* C29: a Deck built with numDecks = d and numJokers = j holds 52 d + j
\* cards, no id twice; and shuffle leaves the deck as long as it was, each id
\* in it as many times as before.
C29_DeckIsBuiltAndShuffled ==
    /\ []((oneDeck # NoDeck /\ last.op = "new Deck")
          => /\ Len(oneDeck.cards) = 52 * oneDeck.numDecks + oneDeck.numJokers
             /\ \A k, m \in 1..Len(oneDeck.cards) :
                  oneDeck.cards[k] = oneDeck.cards[m] => k = m)
    /\ [][last'.op = "shuffle"
          => /\ Len(oneDeck'.cards) = Len(oneDeck.cards)
             /\ IsPermutation(oneDeck'.cards, oneDeck.cards)]_vars

\* A full deck of 2 packs and 2 jokers that shuffle has put in another order.
C29_Witness ==
    /\ oneDeck # NoDeck
    /\ last.op = "shuffle"
    /\ Len(oneDeck.cards) = 106
    /\ oneDeck.cards # initialize(2, 2)

\* C30: deal(n) on a deck of k cards returns the first min(n, k) cards in
\* their order and leaves the others in theirs, so that count drops by
\* min(n, k); draw returns the front card and leaves the others in their
\* order, or returns nothing and leaves the deck empty when it was empty.
C30_DealAndDrawTakeFromFront ==
    [][/\ last'.op = "deal"
          => LET k == Len(oneDeck.cards)
                 n == Min(oneDeck'.arg, k)
             IN /\ oneDeck'.returned = [i \in 1..n |-> oneDeck.cards[i]]
                /\ oneDeck'.cards = [i \in 1..(k - n) |-> oneDeck.cards[n + i]]
                /\ Len(oneDeck'.cards) = k - n
       /\ last'.op = "draw"
          => IF oneDeck.cards = <<>>
               THEN oneDeck'.returned = <<>> /\ oneDeck'.cards = oneDeck.cards
               ELSE /\ oneDeck'.returned = <<oneDeck.cards[1]>>
                    /\ oneDeck'.cards
                         = [i \in 1..(Len(oneDeck.cards) - 1) |-> oneDeck.cards[i + 1]]]_vars

\* deal was asked for more cards than the deck held, and returned them all.
C30_Witness ==
    /\ oneDeck # NoDeck
    /\ last.op = "deal"
    /\ oneDeck.arg > Len(oneDeck.returned)
    /\ Len(oneDeck.returned) >= 2
    /\ oneDeck.cards = <<>>

\* C31: saving a deck and loading it again gives a deck of the same cards in
\* the same order: whatever number of draws follows, each returns the card
\* it would have returned from the deck before it was saved.
C31_SaveLoadKeepsDrawOrder ==
    [][last'.op = "save-load"
       => /\ Len(oneDeck'.cards) = Len(oneDeck.cards)
          /\ \A k \in 0..Len(oneDeck.cards) :
               draw(SubSeq(oneDeck'.cards, k + 1, Len(oneDeck'.cards))).card
                 = draw(SubSeq(oneDeck.cards, k + 1, Len(oneDeck.cards))).card]_vars

\* A shuffled deck, some cards already dealt from it, was saved and loaded.
C31_Witness ==
    /\ oneDeck # NoDeck
    /\ last.op = "save-load"
    /\ ops = 3
    /\ Len(oneDeck.cards) \in 50..105
    /\ \E k \in 1..(Len(oneDeck.cards) - 1) : oneDeck.cards[k] > oneDeck.cards[k + 1]

\* The positions of a group whose card is neither a joker nor of the rank of
\* the wildcard.
plain(cards, wildCard) ==
    {k \in 1..Len(cards) :
        ~IsJoker(cards[k])
        /\ (wildCard = <<>> \/ RankOf(cards[k]) # RankOf(wildCard[1]))}

\* The rank values of cards at positions, A = 1, ..., K = 13.
values(cards, positions) == {((cards[k] - 1) % 13) + 1 : k \in positions}

\* Every group of a declare is a pure sequence, an impure sequence or a set.
allClassified(groups, wildCard) ==
    \A k \in 1..Len(groups) :
        \/ isPureSequence(groups[k])
        \/ isImpureSequence(groups[k], wildCard)
        \/ isSet(groups[k], wildCard)

\* The groups hold exactly the cards of the hand, each once.
coversHand(groups, hand) ==
    /\ UNION {Range(groups[k]) : k \in 1..Len(groups)} = hand
    /\ \A k, m \in 1..Len(groups) :
          \A i \in 1..Len(groups[k]), n \in 1..Len(groups[m]) :
             groups[k][i] = groups[m][n] => (k = m /\ i = n)

\* C32: validateHand answers isValid = true exactly when every group is a
\* pure sequence, an impure sequence or a set, the groups hold exactly the
\* cards of the player's hand, each once, and one group is a pure sequence.
C32_ValidDeclare ==
    (judged # NoCards /\ last.op = "validateHand")
    => (judged.answer = <<TRUE>>
        <=> /\ allClassified(judged.groups, judged.wildCard)
            /\ coversHand(judged.groups, judged.hand)
            /\ \E k \in 1..Len(judged.groups) : isPureSequence(judged.groups[k]))

\* C33: isImpureSequence accepts a group only if it has 3 cards or more, its
\* cards other than jokers and wildcards are of one suit and of different
\* ranks, and the jokers and wildcards are enough to fill the gaps between
\* their ranks; 5 of spades, 6 of hearts, 7 of spades is not accepted.
C33_ImpureSequence ==
    (judged # NoCards /\ last.op = "isImpureSequence" /\ judged.answer = <<TRUE>>)
    => LET cards == judged.cards
           real == plain(cards, judged.wildCard)
           vals == values(cards, real)
       IN /\ Len(cards) >= 3
          /\ \A k, m \in real : SuitOf(cards[k]) = SuitOf(cards[m])
          /\ Cardinality(vals) = Cardinality(real)
          /\ \A lo, hi \in vals :
                lo <= hi
                => (hi - lo + 1) - Cardinality({v \in vals : lo <= v /\ v <= hi})
                     <= Len(cards) - Cardinality(real)
          /\ cards # <<5, 19, 7>>

\* C34: isPureSequence is true exactly when the group has 3 cards or more,
\* all of one suit, none a joker, and their rank values (A = 1, ..., K = 13)
\* are all different and fill a range with no gap; 5, 6, 7 of spades is a
\* pure sequence, and 5 of spades, 6 of hearts, 7 of spades is not.
C34_PureSequence ==
    (judged # NoCards /\ last.op = "isPureSequence")
    => LET cards == judged.cards
           vals == values(cards, 1..Len(cards))
       IN /\ judged.answer
               = << /\ Len(cards) >= 3
                    /\ \A k, m \in 1..Len(cards) : SuitOf(cards[k]) = SuitOf(cards[m])
                    /\ \A k \in 1..Len(cards) : ~IsJoker(cards[k])
                    /\ Cardinality(vals) = Len(cards)
                    /\ \A lo, hi \in vals :
                          \A v \in lo..hi : v \in vals >>
          /\ cards = <<5, 6, 7>> => judged.answer = <<TRUE>>
          /\ cards = <<5, 19, 7>> => judged.answer = <<FALSE>>

\* 7, 5, 6 of spades, handed over in that order, was judged a pure sequence.
C34_Witness ==
    /\ judged # NoCards
    /\ last.op = "isPureSequence"
    /\ judged.cards = <<7, 5, 6>>
    /\ judged.answer = <<TRUE>>

\* C35: isSet is true exactly when the group has 3 or 4 cards and those that
\* are neither jokers nor of the wildcard's rank are all of one rank and of
\* different suits; 7 of spades, diamonds and clubs is a set, and 7 of
\* spades, 7 of diamonds and the other 7 of spades is not.
C35_Set ==
    (judged # NoCards /\ last.op = "isSet")
    => LET cards == judged.cards
           real == plain(cards, judged.wildCard)
       IN /\ judged.answer
               = << /\ Len(cards) \in {3, 4}
                    /\ \A k, m \in real :
                          k # m => /\ RankOf(cards[k]) = RankOf(cards[m])
                                   /\ SuitOf(cards[k]) # SuitOf(cards[m]) >>
          /\ cards = <<7, 33, 46>> => judged.answer = <<TRUE>>
          /\ cards = <<7, 33, 59>> => judged.answer = <<FALSE>>

\* Sixes being wild, 7 of spades, 7 of diamonds and 6 of spades was judged a
\* set.
C35_Witness ==
    /\ judged # NoCards
    /\ last.op = "isSet"
    /\ judged.wildCard = <<19>>
    /\ judged.cards = <<7, 33, 6>>
    /\ judged.answer = <<TRUE>>

\* C36: in every stored room, and so in every payload sent from it,
\* gameState.players equals room.players: the same ids in the same order
\* with the same hands and isMyTurn flags.
C36_PublicRosterMirrorsRoster ==
    \A id \in DOMAIN rooms : rooms[id].gsPlayers = rooms[id].players

\* C37: in every stored room that is playing, a player who does not hold the
\* turn has 13 cards and a player who holds it has 13 or 14.
C37_HandSizesWhilePlaying ==
    \A id \in DOMAIN rooms :
        rooms[id].status = "playing"
        => \A k \in 1..Len(rooms[id].players) :
              LET p == rooms[id].players[k]
              IN IF p.isMyTurn
                 THEN Len(p.hand) \in {HandSize, HandSize + 1}
                 ELSE Len(p.hand) = HandSize

\* What a draw or a discard may not change in an ended room: the hands and
\* turn flags, the deck and the discard pile.
table(room) ==
    [players |-> room.players, deck |-> room.deck, discardPile |-> room.discardPile]

\* C38: a draw-card or discard-card handler leaves the hands, the deck, the
\* discard pile and the turn flags of a room stored as ended as they were.
C38_EndedRoomIsFrozen ==
    [][\A id \in DOMAIN rooms :
          (rooms[id].status = "ended"
           /\ last'.op \in {"draw-card", "discard-card"}
           /\ id \in DOMAIN rooms')
          => table(rooms'[id]) = table(rooms[id])]_vars

\* The ids of the stored rooms whose roster holds the player.
roomsOf(s) == {id \in DOMAIN rooms : findIndex(rooms[id].players, s) # 0}

\* C39: a player id is in the roster of at most one stored room, and an
\* entry socket:<id> of the store names the room whose roster holds the
\* player.
C39_OneRoomPerPlayer ==
    \A s \in Sockets :
        /\ Cardinality(roomsOf(s)) <= 1
        /\ s \in DOMAIN socketRoom => roomsOf(s) = {socketRoom[s]}

\* No entry of a list occurs in it twice.
once(list) == \A i, k \in 1..Len(list) : list[i] = list[k] => i = k

\* C40: no player id is twice in a list queue:<g>, and the g entries a
\* join-queue handler pops for a match name g players: all of them being
\* connected, the room made for them has g players.
C40_BucketNamesDistinctPlayers ==
    /\ [](\A g \in DOMAIN queues : once(queues[g]))
    /\ [][\A g \in DOMAIN queues :
             (/\ last'.op = "join-queue"
              /\ nextRoom' = nextRoom + 1
              /\ Len(queues'[g]) < Len(queues[g])
              /\ closed = {})
             => Len(rooms'[RoomSeq[nextRoom']].players) = g]_vars

====
